---- MODULE Spec2Model ----
(***************************************************************************)
(* unwrapped.fm: the asynchronous music-analysis job pipeline.             *)
(*                                                                         *)
(* State: the music-analysis table (one row per job), the users' stored    *)
(* Spotify credentials, the request handlers that are in flight, and the   *)
(* background tasks with their SQLAlchemy sessions (uncommitted attribute  *)
(* changes are kept per task and reach the table only on commit; a failed  *)
(* commit rolls the session back and discards them).                       *)
(*                                                                         *)
(* Conventions: an optional column holds <<>> for NULL and <<v>> for v.    *)
(* Scores are in tenths (0.7 is 7, the interval [-1.0, 1.0] is -10..10).   *)
(* Exception messages are tuples of strings; wrapping an exception in      *)
(* f"prefix: {e}" prepends the prefix to the tuple.                        *)
(***************************************************************************)
EXTENDS Integers, Sequences, FiniteSets, TLC

VARIABLES
    store,          \* Seq of rows of table musicanalysisresult; row id = index
    users,          \* [Owners -> stored Spotify credentials]
    now,            \* last value read from datetime.now(UTC)
    inserting,      \* [Owners -> number of begin requests that found no job
                    \*            and are about to insert one]
    tasks,          \* Seq of background task executions (process_music_analysis_task)
    begin_returns,  \* set of <<owner, analysis_id, how>> returned by begin so far
    last_resp       \* the answer to the poll / result / public request served by
                    \* the last step, if it served one

vars == <<store, users, now, inserting, tasks, begin_returns, last_resp>>

----------------------------------------------------------------------------
(* Bounds *)

NumHandlers == 2
MaxTime == 1
MaxRedeliveries == 1

Owners == {1, 2}
Times == 0..MaxTime

\* the owner whose requests are explored; the other owner's job, when there is
\* one, has already run to its end
Callers == {1}

\* the table never holds more rows than this (one spare beyond one per owner)
MaxRows == Cardinality(Owners) + 1

None == <<>>
Some(v) == <<v>>

----------------------------------------------------------------------------
(* music/models.py *)

PENDING == "pending"
PROCESSING == "processing"
COMPLETED == "completed"
FAILED == "failed"

AnalysisStatus == {PENDING, PROCESSING, COMPLETED, FAILED}

ResultFields == {"rating_text", "rating_description", "x_axis_pos", "y_axis_pos", "share_token"}

\* MusicAnalysisResult(user_id=u) with every other column at its default
MusicAnalysisResult(u, t) ==
    [user_id |-> u, status |-> PENDING, error_message |-> None,
     rating_text |-> None, rating_description |-> None,
     x_axis_pos |-> None, y_axis_pos |-> None, share_token |-> None,
     created_at |-> t, started_at |-> None, completed_at |-> None]

RowIds(s) == 1..Len(s)

\* user_id: Field(foreign_key="user.id", unique=True)
UserIdUniqueMissing(s, u) == TRUE
UserIdUnique(s, u) == \A i \in RowIds(s) : s[i].user_id # u

\* share_token: Field(default=None, unique=True, index=True); NULLs never collide
ShareTokenUniqueMissing(s, id, tok) == TRUE
ShareTokenUnique(s, id, tok) ==
    tok = None \/ \A i \in RowIds(s) : i # id => s[i].share_token # tok

\* select(MusicAnalysisResult).where(user_id == u), scalar_one_or_none()
RowsOfUser(s, u) == {i \in RowIds(s) : s[i].user_id = u}
RowsWithToken(s, tok) == {i \in RowIds(s) : s[i].share_token = Some(tok)}

----------------------------------------------------------------------------
(* Collected listening data (the dict built by fetch_user_music_data) *)

Windows == <<"short_term", "medium_term", "long_term">>
WindowSet == {Windows[i] : i \in 1..3}

Track(id, pop) == [id |-> id, popularity |-> pop]
Artist(id, genres) == [id |-> id, genres |-> genres]
Feature(e, v, d) == [energy |-> e, valence |-> v, danceability |-> d]

NoItems == [w \in WindowSet |-> <<>>]

MusicData(tt, ta, rp, af) ==
    [top_tracks |-> tt, top_artists |-> ta, recently_played |-> rp, audio_features |-> af]

EmptyData == MusicData(NoItems, NoItems, <<>>, <<>>)

\* what the listening-history provider holds for a user (representative cases);
\* features maps a track id to its audio-feature vector, or to None
Upstream(tt, ta, rp, fm) ==
    [top_tracks |-> tt, top_artists |-> ta, recently_played |-> rp, features |-> fm]

EmptyUpstream == Upstream(NoItems, NoItems, <<>>, <<>>)
PopUpstream ==
    Upstream([NoItems EXCEPT !["short_term"] = <<Track(1, 80), Track(2, 75)>>],
             [NoItems EXCEPT !["short_term"] = <<Artist(1, {"pop"})>>],
             <<1>>, (1 :> Feature(8, 8, 8)) @@ (2 :> None))
MidUpstream ==
    Upstream([NoItems EXCEPT !["medium_term"] = <<Track(3, 50)>>,
                             !["long_term"] = <<Track(3, 50), Track(4, 41)>>],
             [NoItems EXCEPT !["long_term"] = <<Artist(2, {"rock", "indie", "jazz"})>>],
             <<>>, (3 :> Feature(5, 2, 5)) @@ (4 :> Feature(9, 1, 9)))
RecentOnlyUpstream == Upstream(NoItems, NoItems, <<5>>, (5 :> Feature(5, 5, 5)))

UpstreamData == {EmptyUpstream, PopUpstream, MidUpstream, RecentOnlyUpstream}

\* a user with more distinct tracks than one audio-features request can
\* carry: fifty in each of two windows (the provider's page size) and the rest
\* in the third
PageSize == 50
ManyTracks == 101
TracksFrom(a, b) == [i \in 1..(b - a + 1) |-> Track(a + i - 1, 50)]
ManyTracksUpstream ==
    Upstream([w \in WindowSet |->
                CASE w = "short_term" -> TracksFrom(101, 100 + PageSize)
                  [] w = "medium_term" -> TracksFrom(101 + PageSize, 100 + 2 * PageSize)
                  [] w = "long_term" -> TracksFrom(101 + 2 * PageSize, 100 + ManyTracks)],
             NoItems, <<>>,
             [id \in 101..(100 + ManyTracks) |-> Feature(id % 10, 5, 5)])

RECURSIVE SumSeq(_)
SumSeq(q) == IF q = <<>> THEN 0 ELSE Head(q) + SumSeq(Tail(q))

SeqRange(q) == {q[i] : i \in 1..Len(q)}

\* f"{n/d:.0f}": round half to even
RoundHalfEven(n, d) ==
    LET q == n \div d
        r == n % d
    IN  IF 2 * r < d THEN q
        ELSE IF 2 * r > d THEN q + 1
        ELSE IF q % 2 = 0 THEN q ELSE q + 1

\* pooled over the three windows, in window order
PooledTracks(d) ==
    d.top_tracks["short_term"] \o d.top_tracks["medium_term"] \o d.top_tracks["long_term"]
PooledArtists(d) ==
    d.top_artists["short_term"] \o d.top_artists["medium_term"] \o d.top_artists["long_term"]
AllPopularities(d) == [i \in 1..Len(PooledTracks(d)) |-> PooledTracks(d)[i].popularity]
Genres(d) == UNION {a.genres : a \in SeqRange(PooledArtists(d))}

\* "mainstream" in str(genres).lower(): some genre name contains the substring
MainstreamNamed == {"mainstream", "Mainstream Rock"}
ExperimentalGenres == {"experimental", "noise", "avant-garde"}

Verdict(text, desc, x, y) ==
    [k \in {"rating_text", "rating_description", "x_axis_pos", "y_axis_pos"} |->
        CASE k = "rating_text" -> text
          [] k = "rating_description" -> desc
          [] k = "x_axis_pos" -> x
          [] OTHER -> y]

avg_popularity_at_least_70(total, n) == n > 0 /\ total >= 70 * n

\* "if avg_popularity > 70", avg_popularity being sum / len, or 0 with no track
avg_popularity_above_70(total, n) == n > 0 /\ total > 70 * n

\* background_tasks._fallback_analysis
fallback_analysis_score_keys(d) ==
    [rating_text |-> "BALANCED LISTENER", rating_description |-> <<"vanilla">>,
     critical_acclaim_score |-> 0, music_snob_score |-> 1]
fallback_analysis(d) ==
    LET pops == AllPopularities(d)
        n == Len(pops)
        total == SumSeq(pops)
        avg0f == IF n = 0 THEN 0 ELSE RoundHalfEven(total, n)
        genres == Genres(d)
        genre_count == Cardinality(genres)
        total_tracks == Len(PooledTracks(d))
    IN  IF avg_popularity_above_70(total, n)
        THEN IF "pop" \in genres \/ genres \cap MainstreamNamed # {}
             THEN Verdict("BASIC MAINSTREAM", <<"billboard", avg0f>>, 7, -3)
             ELSE Verdict("POPULAR TASTE", <<"popular", avg0f>>, 5, 2)
        ELSE IF n = 0 \/ total < 30 * n
        THEN IF genres \cap ExperimentalGenres # {}
             THEN Verdict("PRETENTIOUS HIPSTER", <<"berlin", avg0f>>, -8, -6)
             ELSE Verdict("UNDERGROUND EXPLORER", <<"gems", avg0f>>, -5, 4)
        ELSE IF genre_count > 10
             THEN Verdict("GENRE HOPPER", <<"buffet", genre_count>>, 1, 8)
        ELSE IF genre_count < 3
             THEN Verdict("ONE-TRACK MIND", <<"lane", genre_count>>, -2, -4)
        ELSE Verdict("BALANCED LISTENER", <<"vanilla", genre_count, total_tracks>>, 0, 1)

\* the iteration orders of a set: Python fixes none for a set of strings
Orders(S) ==
    {o \in [1..Cardinality(S) -> S] : \A i, j \in 1..Cardinality(S) : o[i] = o[j] => i = j}

\* "mainstream" in str(genres).lower(), with the set printed in the order o:
\* the names are printed quoted and comma-separated, so the substring lies
\* within one name
str_has_mainstream(o) == \E i \in 1..Len(o) : o[i] \in MainstreamNamed

any_experimental_first_only(o) == Len(o) > 0 /\ o[1] \in ExperimentalGenres

\* any(genre in ["experimental", "noise", "avant-garde"] for genre in genres),
\* iterating in the order o
any_experimental(o) == \E i \in 1..Len(o) : o[i] \in ExperimentalGenres

\* background_tasks._fallback_analysis when the genre set iterates in the order o
fallback_analysis_ordered(d, o) ==
    LET pops == AllPopularities(d)
        n == Len(pops)
        total == SumSeq(pops)
        avg0f == IF n = 0 THEN 0 ELSE RoundHalfEven(total, n)
        genre_count == Len(o)
        total_tracks == Len(PooledTracks(d))
    IN  IF avg_popularity_above_70(total, n)
        THEN IF "pop" \in SeqRange(o) \/ str_has_mainstream(o)
             THEN Verdict("BASIC MAINSTREAM", <<"billboard", avg0f>>, 7, -3)
             ELSE Verdict("POPULAR TASTE", <<"popular", avg0f>>, 5, 2)
        ELSE IF n = 0 \/ total < 30 * n
        THEN IF any_experimental(o)
             THEN Verdict("PRETENTIOUS HIPSTER", <<"berlin", avg0f>>, -8, -6)
             ELSE Verdict("UNDERGROUND EXPLORER", <<"gems", avg0f>>, -5, 4)
        ELSE IF genre_count > 10
             THEN Verdict("GENRE HOPPER", <<"buffet", genre_count>>, 1, 8)
        ELSE IF genre_count < 3
             THEN Verdict("ONE-TRACK MIND", <<"lane", genre_count>>, -2, -4)
        ELSE Verdict("BALANCED LISTENER", <<"vanilla", genre_count, total_tracks>>, 0, 1)

\* MusicAnalysisService._fallback_analysis (the synchronous path): audio features
\* instead of genre diversity in the mid-range branch
service_fallback_analysis(d) ==
    LET pops == AllPopularities(d)
        n == Len(pops)
        total == SumSeq(pops)
        avg0f == IF n = 0 THEN 0 ELSE RoundHalfEven(total, n)
        genres == Genres(d)
        valid == SelectSeq(d.audio_features, LAMBDA f : f # None)
        m == Len(valid)
        sum_energy == SumSeq([i \in 1..m |-> valid[i].energy])
        sum_valence == SumSeq([i \in 1..m |-> valid[i].valence])
        sum_dance == SumSeq([i \in 1..m |-> valid[i].danceability])
        avg1f(s) == IF m = 0 THEN 0 ELSE RoundHalfEven(s, m)
    IN  IF n > 0 /\ total > 70 * n
        THEN IF "pop" \in genres \/ genres \cap MainstreamNamed # {}
             THEN Verdict("BASIC MAINSTREAM", <<"billboard", avg0f>>, 7, -3)
             ELSE Verdict("POPULAR TASTE", <<"popular", avg0f>>, 5, 2)
        ELSE IF n = 0 \/ total < 30 * n
        THEN IF genres \cap ExperimentalGenres # {}
             THEN Verdict("PRETENTIOUS HIPSTER", <<"berlin", avg0f>>, -8, -6)
             ELSE Verdict("UNDERGROUND EXPLORER", <<"gems", avg0f>>, -5, 4)
        ELSE IF m > 0 /\ sum_energy > 7 * m /\ sum_dance > 7 * m
             THEN Verdict("PARTY ANIMAL", <<"move", avg1f(sum_energy), avg1f(sum_dance)>>, 3, 8)
        ELSE IF m = 0 \/ sum_valence < 3 * m
             THEN Verdict("EMO SADBOY", <<"darker", avg1f(sum_valence)>>, -2, -7)
        ELSE Verdict("BALANCED LISTENER", <<"vanilla">>, 0, 1)

HasNoDataNorArtists(d) ==
    /\ \A w \in WindowSet : d.top_tracks[w] = <<>> /\ d.top_artists[w] = <<>>
    /\ d.recently_played = <<>>

\* the "no music data at all" test shared by every _analyze_music_with_ai
HasNoData(d) ==
    /\ \A w \in WindowSet : d.top_tracks[w] = <<>>
    /\ d.recently_played = <<>>

DefaultAnalysis == Verdict("MYSTERIOUS LISTENER", <<"mystery">>, 0, 0)

----------------------------------------------------------------------------
(* music/spotify_data_collector.py *)

TopTrackFetches == {<<"top_tracks", w>> : w \in WindowSet}
TopArtistFetches == {<<"top_artists", w>> : w \in WindowSet}
SubFetches == TopTrackFetches \cup TopArtistFetches
                \cup {<<"recently_played">>, <<"audio_features">>}

\* the sub-fetch failure patterns explored by the job pipeline
FailurePatterns == {{}, TopTrackFetches \cup {<<"recently_played">>}, SubFetches}

\* the members of S between lo and hi, ascending
RECURSIVE SortedBetween(_, _, _)
SortedBetween(S, lo, hi) ==
    IF lo > hi THEN <<>>
    ELSE IF lo = hi THEN (IF lo \in S THEN <<lo>> ELSE <<>>)
    ELSE LET mid == (lo + hi) \div 2
         IN  SortedBetween(S, lo, mid) \o SortedBetween(S, mid + 1, hi)

SortedSeq(S) ==
    IF S = {} THEN <<>>
    ELSE SortedBetween(S, CHOOSE x \in S : \A y \in S : x <= y,
                          CHOOSE x \in S : \A y \in S : x >= y)

\* Spotify's limit of ids per audio-features request
BatchSize == 100
MaxBatches == 2

\* one audio-features request per batch; <<"audio_features">> in a failure
\* pattern stands for every batch failing
FeatureBatchFetches == {<<"audio_features", b>> : b \in 1..MaxBatches}
\* every request the collector makes, one by one
SingleSubFetches ==
    TopTrackFetches \cup TopArtistFetches \cup {<<"recently_played">>} \cup FeatureBatchFetches

BatchOf(i) == ((i - 1) \div BatchSize) + 1

fetch_slot_keeps_data(data, failed) == data

\* try: music_data[key] = await get_...(); except: music_data[key] = {"items": []}
fetch_slot(data, failed) == IF failed THEN <<>> ELSE data

\* _fetch_top_items, _fetch_recently_played, _fetch_audio_features: a failed
\* sub-fetch leaves {"items": []}; a failed feature batch contributes nothing
CollectedData(up, failing) ==
    LET tt == [w \in WindowSet |->
                  fetch_slot(up.top_tracks[w], <<"top_tracks", w>> \in failing)]
        ta == [w \in WindowSet |->
                  fetch_slot(up.top_artists[w], <<"top_artists", w>> \in failing)]
        rp == fetch_slot(up.recently_played, <<"recently_played">> \in failing)
        track_ids == UNION {{tt[w][i].id : i \in 1..Len(tt[w])} : w \in WindowSet}
                        \cup SeqRange(rp)
        ids == SortedSeq(track_ids)
        fetched == [i \in 1..Len(ids) |->
                      <<i, IF ids[i] \in DOMAIN up.features THEN up.features[ids[i]] ELSE None>>]
        BatchFails(b) == <<"audio_features">> \in failing \/ <<"audio_features", b>> \in failing
        kept == SelectSeq(fetched, LAMBDA p : ~BatchFails(BatchOf(p[1])))
        af == [j \in 1..Len(kept) |-> kept[j][2]]
    IN  MusicData(tt, ta, rp, af)

----------------------------------------------------------------------------
(* music/ai_client.py *)

\* the fields the system prompt tells the provider to return
SchemaFields == {"rating_text", "rating_description", "critical_acclaim_score", "music_snob_score"}

RequiredFieldsWithoutDescription == {"rating_text", "critical_acclaim_score", "music_snob_score"}

\* required_fields
RequiredFields == {"rating_text", "rating_description", "critical_acclaim_score", "music_snob_score"}
ScoreFields == {"critical_acclaim_score", "music_snob_score"}

\* json.loads accepts the literal NaN; a score may also be a JSON value that
\* float() rejects (a word, null, a list)
NaN == 1000
NonNumeric == 1001

\* Python's < on floats: false whenever an operand is NaN
Less(a, b) == a # NaN /\ b # NaN /\ a < b

\* Python's max(a, b) and min(a, b): the first argument unless the second is
\* strictly greater (smaller)
Max(a, b) == IF Less(a, b) THEN b ELSE a
Min(a, b) == IF Less(b, a) THEN b ELSE a

ClampScoreUpperOnly(v) == Min(10, v)

\* max(-1.0, min(1.0, float(v)))
ClampScore(v) == Max(-10, Min(10, v))

\* replies of the text-generation provider
JsonRequired(x, y) ==
    [rating_text |-> "CHAOTIC GOBLIN", rating_description |-> <<"ai prose">>,
     critical_acclaim_score |-> x, music_snob_score |-> y]
JsonWithAxes(x, y) ==
    [rating_text |-> "NOSTALGIC MILLENNIAL", rating_description |-> <<"ai prose">>,
     critical_acclaim_score |-> x, music_snob_score |-> y,
     x_axis_pos |-> x, y_axis_pos |-> y]
JsonMissingField == [rating_text |-> "HALF A REPLY", rating_description |-> <<"ai prose">>]

NetworkError == [kind |-> "network_error"]
EmptyContent == [kind |-> "empty"]
InvalidJson == [kind |-> "invalid_json"]
JsonReply(obj) == [kind |-> "json", obj |-> obj]

ProviderReplies ==
    {NetworkError, EmptyContent, InvalidJson, JsonReply(JsonMissingField),
     JsonReply(JsonRequired(2, 3)), JsonReply(JsonWithAxes(7, -3)),
     JsonReply(JsonWithAxes(20, -3))}

Ok(v) == [ok |-> TRUE, value |-> v]
Err(msg) == [ok |-> FALSE, error |-> msg]

\* MusicAnalysisAI.analyze_music_taste on the provider's reply
analyze_music_taste(reply) ==
    CASE reply.kind = "network_error" -> Err(<<"AI analysis failed", "connection error">>)
      [] reply.kind = "empty" -> Err(<<"AI analysis failed", "Empty response from AI">>)
      [] reply.kind = "invalid_json" -> Err(<<"Invalid JSON response from AI">>)
      [] OTHER ->
            IF \E f \in RequiredFields : f \notin DOMAIN reply.obj
            THEN Err(<<"AI analysis failed", "Missing required field">>)
            ELSE IF \E f \in ScoreFields : reply.obj[f] = NonNumeric
            THEN Err(<<"AI analysis failed", "could not convert to float">>)
            ELSE Ok([k \in DOMAIN reply.obj |->
                        IF k \in ScoreFields THEN ClampScore(reply.obj[k])
                        ELSE reply.obj[k]])

analyze_music_with_ai_without_client(d, reply) ==
    IF HasNoData(d)
    THEN [result |-> DefaultAnalysis, ai |-> "not_called", swallowed |-> None]
    ELSE [result |-> fallback_analysis(d), ai |-> "not_called", swallowed |-> None]

\* background_tasks._analyze_music_with_ai: [result, ai] where ai tells whether
\* the AI client was invoked and how it ended
analyze_music_with_ai(d, reply) ==
    IF HasNoData(d)
    THEN [result |-> DefaultAnalysis, ai |-> "not_called", swallowed |-> None]
    ELSE LET r == analyze_music_taste(reply)
         IN  IF r.ok
             THEN [result |-> r.value, ai |-> "ok", swallowed |-> None]
             ELSE [result |-> fallback_analysis(d), ai |-> "failed",
                   swallowed |-> Some(r.error)]

\* MusicAnalysisService._analyze_music_with_ai
service_analyze_music_with_ai(d, reply) ==
    IF HasNoData(d) THEN DefaultAnalysis
    ELSE LET r == analyze_music_taste(reply)
         IN  IF r.ok THEN r.value ELSE service_fallback_analysis(d)

----------------------------------------------------------------------------
(* music/ai_client.py: MusicAnalysisAI._prepare_music_summary *)

\* a quotient of two integers, kept exact (Python's float is its rounding)
Ratio(n, d) == [num |-> n, den |-> d]
\* the initial 0 of a summary field
Zero == Ratio(0, 1)

\* Python's a / b
true_div(n, d) == IF d = 0 THEN Err(<<"ZeroDivisionError">>) ELSE Ok(Ratio(n, d))

\* artist_appearances: how many of the pooled top-artist entries carry the id
artist_appearances(d) ==
    LET pooled == PooledArtists(d)
    IN  [id \in {pooled[i].id : i \in 1..Len(pooled)} |->
            Cardinality({i \in 1..Len(pooled) : pooled[i].id = id})]

loyal_from_one(count) == count >= 1

\* if count > 1
loyal(count) == count > 1

prepare_music_summary(d) ==
    LET tracks == PooledTracks(d)
        all_popularities == AllPopularities(d)
        n == Len(all_popularities)
        avg == IF n > 0 THEN true_div(SumSeq(all_popularities), n) ELSE Ok(Zero)
        mainstream == IF n > 0 /\ avg.ok
                      THEN true_div(avg.value.num, avg.value.den * 100) ELSE Ok(Zero)
        appearances == artist_appearances(d)
        loyal_artists == Cardinality({id \in DOMAIN appearances : loyal(appearances[id])})
        loyalty == IF DOMAIN appearances # {}
                   THEN true_div(loyal_artists, Cardinality(DOMAIN appearances))
                   ELSE Ok(Zero)
    IN  IF ~avg.ok THEN avg
        ELSE IF ~mainstream.ok THEN mainstream
        ELSE IF ~loyalty.ok THEN loyalty
        ELSE Ok([total_unique_tracks |-> Cardinality({tracks[i].id : i \in 1..Len(tracks)}),
                 total_unique_artists |->
                     Cardinality({PooledArtists(d)[i].id : i \in 1..Len(PooledArtists(d))}),
                 popularity_avg |-> avg.value,
                 genre_diversity |-> Cardinality(Genres(d)),
                 mainstream_score |-> mainstream.value,
                 recently_played_count |-> Len(d.recently_played),
                 artist_loyalty_score |-> loyalty.value])

----------------------------------------------------------------------------
(* music/analysis_coordinator.py *)

\* AnalysisCoordinator._fallback_analysis: audio-feature averages decide the
\* mid-range branch
coordinator_fallback_analysis(d) ==
    LET pops == AllPopularities(d)
        n == Len(pops)
        total == SumSeq(pops)
        avg0f == IF n = 0 THEN 0 ELSE RoundHalfEven(total, n)
        genres == Genres(d)
        valid == SelectSeq(d.audio_features, LAMBDA f : f # None)
        m == Len(valid)
        sum_energy == SumSeq([i \in 1..m |-> valid[i].energy])
        sum_valence == SumSeq([i \in 1..m |-> valid[i].valence])
        sum_dance == SumSeq([i \in 1..m |-> valid[i].danceability])
        avg1f(x) == IF m = 0 THEN 0 ELSE RoundHalfEven(x, m)
    IN  IF n > 0 /\ total > 70 * n
        THEN IF "pop" \in genres \/ genres \cap MainstreamNamed # {}
             THEN Verdict("BASIC MAINSTREAM", <<"billboard", avg0f>>, 7, -3)
             ELSE Verdict("POPULAR TASTE", <<"popular", avg0f>>, 5, 2)
        ELSE IF n = 0 \/ total < 30 * n
        THEN IF genres \cap ExperimentalGenres # {}
             THEN Verdict("PRETENTIOUS HIPSTER", <<"berlin", avg0f>>, -8, -6)
             ELSE Verdict("UNDERGROUND EXPLORER", <<"gems", avg0f>>, -5, 4)
        ELSE IF m > 0 /\ sum_energy > 7 * m /\ sum_dance > 7 * m
             THEN Verdict("PARTY ANIMAL", <<"move", avg1f(sum_energy), avg1f(sum_dance)>>, 3, 8)
        ELSE IF m = 0 \/ sum_valence < 3 * m
             THEN Verdict("EMO SADBOY", <<"darker", avg1f(sum_valence)>>, -2, -7)
        ELSE Verdict("BALANCED LISTENER", <<"vanilla">>, 0, 1)

\* AnalysisCoordinator._analyze_music_with_ai
coordinator_analyze_music_with_ai(d, reply) ==
    IF HasNoData(d) THEN DefaultAnalysis
    ELSE LET r == analyze_music_taste(reply)
         IN  IF r.ok THEN r.value ELSE coordinator_fallback_analysis(d)

----------------------------------------------------------------------------
(* music/spotify.py: SpotifyMusicClient._make_request, attempt by attempt; *)
(* the call in progress is held in last_resp as                            *)
(* Answer("_make_request", retries, frame)                                 *)

\* retries: int = 3
DefaultRetries == 3

\* what client.request does on one attempt: a response with its status, its
\* retry-after header (absent, a number of seconds, or a value that int()
\* rejects, such as an HTTP date) and whether its body parses as JSON; an httpx.RequestError; another exception
HttpResponse(status, retry_after, json_ok) ==
    [kind |-> "response", status |-> status, retry_after |-> retry_after, json_ok |-> json_ok]
RequestError == [kind |-> "request_error"]
OtherException == [kind |-> "exception"]

AttemptOutcomes ==
    {HttpResponse(200, None, TRUE), HttpResponse(200, None, FALSE),
     HttpResponse(204, None, TRUE),
     HttpResponse(429, None, TRUE), HttpResponse(429, Some(0), TRUE),
     HttpResponse(429, Some(3), TRUE), HttpResponse(429, Some(NonNumeric), TRUE),
     HttpResponse(401, None, TRUE), HttpResponse(403, None, TRUE),
     HttpResponse(404, None, TRUE), HttpResponse(500, None, TRUE),
     HttpResponse(500, None, FALSE),
     RequestError, OtherException}

\* int(response.headers.get("retry-after", 1))
retry_after_seconds(h) ==
    IF h = None THEN Ok(1)
    ELSE IF h[1] = NonNumeric THEN Err(<<"Unexpected error", "invalid literal for int()">>)
    ELSE Ok(h[1])

RECURSIVE Pow2(_)
Pow2(n) == IF n = 0 THEN 1 ELSE 2 * Pow2(n - 1)

\* if attempt < retries
can_retry(attempt, retries) == attempt < retries

\* one iteration of the loop on attempt number `attempt` (from 0): the call
\* returns (done, ok), raises (done, not ok) or sleeps `wait` seconds and
\* goes round again
make_request_attempt(attempt, retries, o) ==
    LET Returns(v) == [done |-> TRUE, result |-> Ok(v), wait |-> None]
        Raises(msg) == [done |-> TRUE, result |-> Err(msg), wait |-> None]
        Sleeps(n) == [done |-> FALSE, result |-> None, wait |-> Some(n)]
    IN  CASE o.kind = "request_error" ->
                IF can_retry(attempt, retries) THEN Sleeps(Pow2(attempt))
                ELSE Raises(<<"Network error">>)
          [] o.kind = "exception" -> Raises(<<"Unexpected error">>)
          [] o.status = 200 ->
                IF o.json_ok THEN Returns("json") ELSE Raises(<<"Unexpected error", "JSONDecodeError">>)
          [] o.status = 204 -> Returns("empty")
          [] o.status = 429 ->
                LET ra == retry_after_seconds(o.retry_after)
                IN  IF ~ra.ok THEN Raises(ra.error)
                    ELSE IF can_retry(attempt, retries) THEN Sleeps(ra.value)
                    ELSE Raises(<<"Rate limit exceeded. Retry after", ra.value>>)
          [] o.status = 401 -> Raises(<<"Invalid or expired access token">>)
          [] o.status = 403 -> Raises(<<"Insufficient permissions">>)
          [] o.status = 404 -> Raises(<<"Resource not found">>)
          [] OTHER ->
                IF o.json_ok THEN Raises(<<"Spotify API error", "HTTP", o.status>>)
                ELSE Raises(<<"Unexpected error", "JSONDecodeError">>)

----------------------------------------------------------------------------
(* music/sharing.py *)

TokenLength == 15
max_attempts == 10

\* string.ascii_letters + string.digits
Alphabet ==
    {"a", "b", "c", "d", "e", "f", "g", "h", "i", "j", "k", "l", "m", "n", "o", "p", "q", "r", "s", "t", "u", "v", "w", "x", "y", "z",
     "A", "B", "C", "D", "E", "F", "G", "H", "I", "J", "K", "L", "M", "N", "O", "P", "Q", "R", "S", "T", "U", "V", "W", "X", "Y", "Z",
     "0", "1", "2", "3", "4", "5", "6", "7", "8", "9"}

\* characters the random source is observed to draw (a sample of the alphabet)
SampleChars == {"a", "Z"}

\* generate_share_token when secrets.choice returns c fifteen times
generate_share_token(c) == [i \in 1..TokenLength |-> c]

Tokens == {generate_share_token(c) : c \in SampleChars}

----------------------------------------------------------------------------
(* music/token_refresh_service.py, music/spotify.py refresh_access_token *)

TokenMargin == 5

Credential(at, rt, exp) == [access_token |-> at, refresh_token |-> rt, token_expires_at |-> exp]

\* stored credentials a user may start with
InitialCredentials ==
    {Credential(Some("at0"), Some("rt0"), None),
     Credential(Some("at0"), Some("rt0"), Some(3)),
     Credential(None, None, None)}

\* the credentials of the users of the job pipeline: user 1's token is about to
\* expire, user 2's has no recorded expiry
PipelineCredentials ==
    [u \in Owners |-> IF u = 1 THEN Credential(Some("at0"), Some("rt0"), Some(3))
                      ELSE Credential(Some("at0"), Some("rt0"), None)]

\* the provider's answer to a refresh: failure, or a token response that may
\* omit the refresh token
RefreshFailed == [ok |-> FALSE]
RefreshOk(rt) == [ok |-> TRUE, access_token |-> "at1", refresh_token |-> rt, expires_in |-> 60]
RefreshOutcomes == {RefreshFailed, RefreshOk(None), RefreshOk(Some("rt1"))}

\* the refresh answers met by the job pipeline
PipelineRefreshOutcomes == {RefreshFailed, RefreshOk(None)}

refresh_access_token_forgets_old(old_rt, resp) ==
    [access_token |-> resp.access_token,
     refresh_token |-> IF resp.refresh_token = None THEN "" ELSE resp.refresh_token[1],
     expires_in |-> resp.expires_in]

\* SpotifyMusicClient.refresh_access_token: keep the old refresh token when the
\* response carries none
refresh_access_token(old_rt, resp) ==
    [access_token |-> resp.access_token,
     refresh_token |-> IF resp.refresh_token = None THEN old_rt ELSE resp.refresh_token[1],
     expires_in |-> resp.expires_in]

ExpiresSoonExclusive(exp, t) == exp < t + TokenMargin

\* user.token_expires_at <= datetime.now(UTC) + timedelta(minutes=5)
ExpiresSoon(exp, t) == exp <= t + TokenMargin

\* TokenRefreshService.get_valid_access_token at clock reading t; yields the
\* access token or the error, the credential row as stored afterwards, and
\* whether spotify_client.refresh_access_token was called
get_valid_access_token(user, t, resp, db_ok) ==
    IF user.access_token = None
    THEN [ok |-> FALSE, error |-> <<"User has no Spotify access token">>, user |-> user,
          contacted |-> FALSE]
    ELSE IF user.token_expires_at # None /\ ExpiresSoon(user.token_expires_at[1], t)
    THEN IF user.refresh_token = None
         THEN [ok |-> FALSE, error |-> <<"Spotify refresh token not available">>, user |-> user,
               contacted |-> FALSE]
         ELSE IF ~resp.ok
         THEN [ok |-> FALSE,
               error |-> <<"Failed to refresh Spotify token", "Failed to refresh token">>,
               user |-> user, contacted |-> TRUE]
         ELSE IF ~db_ok
         THEN [ok |-> FALSE, error |-> <<"Failed to refresh Spotify token", "database error">>,
               user |-> user, contacted |-> TRUE]
         ELSE LET info == refresh_access_token(user.refresh_token[1], resp)
              IN  [ok |-> TRUE, value |-> info.access_token,
                   user |-> Credential(Some(info.access_token), Some(info.refresh_token),
                                       Some(t + info.expires_in)),
                   contacted |-> TRUE]
    ELSE [ok |-> TRUE, value |-> user.access_token[1], user |-> user, contacted |-> FALSE]

fetch_user_music_data(user, t, resp, db_ok, up, failing) ==
    LET tok == get_valid_access_token(user, t, resp, db_ok)
    IN  IF tok.ok
        THEN [ok |-> TRUE, value |-> CollectedData(up, failing), user |-> tok.user]
        ELSE [ok |-> FALSE, error |-> <<"Failed to fetch music data">> \o tok.error,
              user |-> tok.user]


\* one upstream/failure combination for every distinct collected dataset
PipelineInputs ==
    {p \in UpstreamData \X FailurePatterns :
        p = CHOOSE q \in UpstreamData \X FailurePatterns :
                CollectedData(q[1], q[2]) = CollectedData(p[1], p[2])}

----------------------------------------------------------------------------
(* The session of a background task: attribute changes are pending until   *)
(* commit; a commit that fails rolls back and discards them.               *)

Set(pending, changes) == changes @@ pending

Apply(row, pending) ==
    [f \in DOMAIN row |-> IF f \in DOMAIN pending THEN pending[f] ELSE row[f]]

CommitOk(s, id, pending, db_ok) ==
    db_ok /\ ShareTokenUnique(s, id, Apply(s[id], pending).share_token)

CommittedToEveryRow(s, id, pending) == [i \in RowIds(s) |-> Apply(s[i], pending)]

Committed(s, id, pending) == [s EXCEPT ![id] = Apply(s[id], pending)]

\* pc: the stage the execution is about to run; failed_at: the stage whose
\* exception reached the handler; recorded: how the handler ended
NewTask(id, u) ==
    [analysis_id |-> id, user_id |-> u, pc |-> "start",
     pending |-> <<>>, music_data |-> None, analysis_result |-> None,
     ai |-> "not_called", swallowed |-> None, share_token |-> None, attempts |-> 0,
     exc |-> None, failed_at |-> "none", recorded |-> "none"]

TaskIds == 1..Len(tasks)
\* the executions there can be: one per job begun or redelivered
TaskSlots == 1..(1 + MaxRedeliveries)

Raise(task, stage, msg) ==
    [task EXCEPT !.pc = "failed", !.exc = Some(msg), !.failed_at = stage]

\* the function returns: its locals are gone
Return(task, how) ==
    [task EXCEPT !.pc = "done", !.recorded = how, !.pending = <<>>,
                 !.music_data = None, !.analysis_result = None, !.swallowed = None,
                 !.share_token = None, !.attempts = 0]

\* the answer to the request served by the last step; NoResponse after a step
\* that served none
Answer(op, arg, resp) == [op |-> op, arg |-> arg, resp |-> resp]
NoResponse == Answer("none", 0, [kind |-> "none"])

----------------------------------------------------------------------------
(* begin: MusicAnalysisService.begin_analysis, called by                   *)
(* analyze_router.begin_analysis                                           *)

RECURSIVE Total(_, _)
Total(f, S) == IF S = {} THEN 0
               ELSE LET u == CHOOSE x \in S : TRUE
                    IN  f[u] + Total(f, S \ {u})

InFlight == Total(inserting, Owners)

\* look the owner's job up; return it when there is one
BeginLookup(u) ==
    /\ IF RowsOfUser(store, u) # {}
       THEN /\ \E id \in RowsOfUser(store, u) :
                  begin_returns' = begin_returns \cup {<<u, id, "existing">>}
            /\ UNCHANGED inserting
       ELSE /\ InFlight < NumHandlers
            /\ inserting' = [inserting EXCEPT ![u] = @ + 1]
            /\ UNCHANGED begin_returns
    /\ UNCHANGED <<store, users, now, tasks>>
    /\ last_resp' = NoResponse

\* insert the PENDING job and hand it to the background task; when the unique
\* index rejects the insert, return the job that is there
BeginInsert(u) ==
    /\ inserting[u] > 0
    /\ inserting' = [inserting EXCEPT ![u] = @ - 1]
    /\ IF UserIdUnique(store, u)
       THEN /\ Len(store) < MaxRows
            /\ \E t \in now..MaxTime :
                 /\ now' = t
                 /\ store' = Append(store, MusicAnalysisResult(u, t))
            /\ tasks' = Append(tasks, NewTask(Len(store) + 1, u))
            /\ begin_returns' = begin_returns \cup {<<u, Len(store) + 1, "created">>}
       ELSE /\ \E id \in RowsOfUser(store, u) :
                 begin_returns' = begin_returns \cup {<<u, id, "lost_race">>}
            /\ UNCHANGED <<store, now, tasks>>
    /\ UNCHANGED users
    /\ last_resp' = NoResponse

----------------------------------------------------------------------------
(* poll and getResult: MusicAnalysisService.poll_analysis / get_analysis   *)
(* behind analyze_router.poll_analysis / get_analysis                      *)

\* an HTTPException raised by the service
HttpError(kind, code, msg) ==
    [kind |-> kind, http |-> TRUE, status_code |-> code, detail |-> msg]

InternalServerError ==
    [kind |-> "InternalError", http |-> TRUE, status_code |-> 500,
     detail |-> <<"Internal server error">>]

poll_analysis(s, u) ==
    IF RowsOfUser(s, u) = {}
    THEN HttpError("NotFound", 404, <<"No analysis found">>)
    ELSE LET id == CHOOSE i \in RowsOfUser(s, u) : TRUE
         IN  [kind |-> "ok", status_code |-> 200, analysis_id |-> id,
              status |-> s[id].status, error_message |-> s[id].error_message,
              created_at |-> s[id].created_at, started_at |-> s[id].started_at,
              completed_at |-> s[id].completed_at]

get_analysis(s, u) ==
    IF RowsOfUser(s, u) = {}
    THEN HttpError("NotFound", 404, <<"No analysis found">>)
    ELSE LET id == CHOOSE i \in RowsOfUser(s, u) : TRUE
             row == s[id]
         IN  IF row.status # COMPLETED
             THEN HttpError("InvalidState", 400, <<"Analysis not completed">>)
             ELSE IF \E f \in ResultFields : row[f] = None
             THEN HttpError("Integrity", 500, <<"Analysis data incomplete">>)
             ELSE [kind |-> "ok", status_code |-> 200,
                   rating_text |-> row.rating_text[1],
                   rating_description |-> row.rating_description[1],
                   x_axis_pos |-> row.x_axis_pos[1], y_axis_pos |-> row.y_axis_pos[1],
                   share_token |-> row.share_token[1], analyzed_at |-> row.created_at]

\* the route's try/except: an HTTPException is re-raised as it is, anything
\* else becomes a 500
route_without_reraise(outcome) ==
    IF outcome.kind = "ok" THEN outcome ELSE InternalServerError
route(outcome) ==
    IF outcome.kind = "ok" \/ outcome.http THEN outcome ELSE InternalServerError

PollTouching(u) ==
    /\ last_resp' = Answer("poll", u, route(poll_analysis(store, u)))
    /\ store' = [i \in RowIds(store) |->
                    IF store[i].user_id = u /\ store[i].status = PENDING
                    THEN [store[i] EXCEPT !.status = PROCESSING] ELSE store[i]]
    /\ UNCHANGED <<users, now, inserting, tasks, begin_returns>>
Poll(u) ==
    /\ last_resp' = Answer("poll", u, route(poll_analysis(store, u)))
    /\ UNCHANGED <<store, users, now, inserting, tasks, begin_returns>>

GetResult(u) ==
    /\ last_resp' = Answer("result", u, route(get_analysis(store, u)))
    /\ UNCHANGED <<store, users, now, inserting, tasks, begin_returns>>

----------------------------------------------------------------------------
(* getPublicResult: MusicAnalysisService.get_analysis_by_share_token,      *)
(* called by public_router.get_shared_analysis                             *)

ValidationFields == {"rating_text", "rating_description", "x_axis_pos", "y_axis_pos"}

\* SpotifyAPIError(message): an HTTPException with the default status 503
SpotifyAPIError(msg) == HttpError("SpotifyAPIError", 503, msg)

get_analysis_by_share_token(s, tok) ==
    IF RowsWithToken(s, tok) = {}
    THEN SpotifyAPIError(<<"Failed to get analysis by share token", "Analysis not found">>)
    ELSE LET row == s[CHOOSE i \in RowsWithToken(s, tok) : TRUE]
         IN  IF \E f \in ValidationFields : row[f] = None
             THEN \* PublicAnalysisResponse(...) raises a pydantic ValidationError
                  SpotifyAPIError(<<"Failed to get analysis by share token", "validation error">>)
             ELSE [kind |-> "ok", status_code |-> 200,
                   rating_text |-> row.rating_text[1],
                   rating_description |-> row.rating_description[1],
                   x_axis_pos |-> row.x_axis_pos[1], y_axis_pos |-> row.y_axis_pos[1],
                   analyzed_at |-> row.created_at]

\* a well-formed token that no job was ever given
UnusedToken == generate_share_token("0")
LookupTokens == Tokens \cup {UnusedToken}

GetPublicResult(tok) ==
    /\ last_resp' = Answer("public", tok, get_analysis_by_share_token(store, tok))
    /\ UNCHANGED <<store, users, now, inserting, tasks, begin_returns>>

----------------------------------------------------------------------------
(* execute: background_tasks.process_music_analysis_task, one action per   *)
(* stretch between suspension points                                       *)

StartFaults == {"none", "load", "commit"}

\* load the row, mark it PROCESSING, stamp started_at, commit
ExecStart(k) ==
    LET task == tasks[k]
        id == task.analysis_id
    IN  /\ k \in TaskIds /\ task.pc = "start"
        /\ \E fault \in StartFaults :
             IF fault = "load"
             THEN /\ tasks' = [tasks EXCEPT ![k] = Raise(task, "load", <<"database error">>)]
                  /\ UNCHANGED <<store, now>>
             ELSE IF id \notin RowIds(store)
             THEN /\ tasks' = [tasks EXCEPT ![k] = Return(task, "missing")]
                  /\ UNCHANGED <<store, now>>
             ELSE \E t \in now..MaxTime :
                  LET pending == Set(task.pending,
                                     [status |-> PROCESSING, started_at |-> Some(t)])
                  IN  /\ now' = t
                      /\ IF CommitOk(store, id, pending, fault = "none")
                         THEN /\ store' = Committed(store, id, pending)
                              /\ tasks' = [tasks EXCEPT ![k] = [task EXCEPT !.pc = "collect"]]
                         ELSE /\ tasks' = [tasks EXCEPT ![k] =
                                             Raise(task, "start_commit", <<"database error">>)]
                              /\ UNCHANGED store
        /\ UNCHANGED <<users, inserting, begin_returns>>
        /\ last_resp' = NoResponse

\* whether get_valid_access_token reads the clock and asks for a refresh
ChecksExpiry(user) == user.access_token # None /\ user.token_expires_at # None

\* Step 1: data_collector.fetch_user_music_data(user_id)
ExecCollect(k) ==
    LET task == tasks[k]
        u == task.user_id
    IN  /\ k \in TaskIds /\ task.pc = "collect"
        /\ \E t \in (IF ChecksExpiry(users[u]) THEN now..MaxTime ELSE {now}),
              resp \in (IF ChecksExpiry(users[u]) THEN PipelineRefreshOutcomes
                        ELSE {RefreshFailed}),
              db_ok \in (IF ChecksExpiry(users[u]) THEN BOOLEAN ELSE {TRUE}),
              input \in PipelineInputs :
             LET r == fetch_user_music_data(users[u], t, resp, db_ok, input[1], input[2])
             IN  /\ now' = t
                 /\ users' = [users EXCEPT ![u] = r.user]
                 /\ tasks' = [tasks EXCEPT ![k] =
                                IF r.ok
                                THEN [task EXCEPT !.pc = "analyze", !.music_data = r.value]
                                ELSE Raise(task, "collect", r.error)]
        /\ UNCHANGED <<store, inserting, begin_returns>>
        /\ last_resp' = NoResponse

\* Step 2: _analyze_music_with_ai(ai_client, music_data)
ExecAnalyze(k) ==
    LET task == tasks[k]
    IN  /\ k \in TaskIds /\ task.pc = "analyze"
        /\ \E reply \in ProviderReplies :
             LET a == analyze_music_with_ai(task.music_data, reply)
             IN  \* music_data is not read again
                 tasks' = [tasks EXCEPT ![k] =
                             [task EXCEPT !.pc = "issue", !.music_data = None,
                                          !.analysis_result = a.result,
                                          !.ai = a.ai, !.swallowed = a.swallowed]]
        /\ UNCHANGED <<store, users, now, inserting, begin_returns>>
        /\ last_resp' = NoResponse

\* a loop that allowed one more iteration than range(max_attempts)
attempts_exhausted_late(n) == n = max_attempts + 1

\* for _ in range(max_attempts): n iterations have run and the loop is over
attempts_exhausted(n) == n = max_attempts

\* Step 3: one iteration of the loop of sharing.generate_unique_share_token
ExecIssueAttempt(k) ==
    LET task == tasks[k]
    IN  /\ k \in TaskIds /\ task.pc = "issue"
        /\ \E c \in SampleChars, db_ok \in BOOLEAN :
             LET token == generate_share_token(c)
             IN  tasks' = [tasks EXCEPT ![k] =
                    IF ~db_ok
                    THEN Raise(task, "issue", <<"database error">>)
                    ELSE IF RowsWithToken(store, token) = {}
                    THEN [task EXCEPT !.pc = "persist", !.share_token = Some(token)]
                    ELSE IF attempts_exhausted(task.attempts + 1)
                    THEN Raise([task EXCEPT !.attempts = task.attempts + 1], "issue",
                               <<"Failed to generate unique share token after maximum attempts">>)
                    ELSE [task EXCEPT !.attempts = task.attempts + 1]]
        /\ UNCHANGED <<store, users, now, inserting, begin_returns>>
        /\ last_resp' = NoResponse

\* Step 4: copy the verdict onto the row, mark it COMPLETED, commit
ExecPersist(k) ==
    LET task == tasks[k]
        id == task.analysis_id
        result == task.analysis_result
        texts == Set(task.pending,
                     [rating_text |-> Some(result["rating_text"]),
                      rating_description |-> Some(result["rating_description"])])
    IN  /\ k \in TaskIds /\ task.pc = "persist"
        /\ IF "x_axis_pos" \notin DOMAIN result
           THEN \* analysis_result["x_axis_pos"] raises KeyError after two assignments
                /\ tasks' = [tasks EXCEPT ![k] =
                               Raise([task EXCEPT !.pending = texts], "persist", <<"'x_axis_pos'">>)]
                /\ UNCHANGED <<store, now>>
           ELSE \E t \in now..MaxTime, db_ok \in BOOLEAN :
                  LET pending == Set(texts,
                                     [x_axis_pos |-> Some(result["x_axis_pos"]),
                                      y_axis_pos |-> Some(result["y_axis_pos"]),
                                      share_token |-> task.share_token,
                                      status |-> COMPLETED,
                                      completed_at |-> Some(t),
                                      error_message |-> None])
                  IN  /\ now' = t
                      /\ IF CommitOk(store, id, pending, db_ok)
                         THEN /\ store' = Committed(store, id, pending)
                              /\ tasks' = [tasks EXCEPT ![k] = Return(task, "completed")]
                         ELSE /\ tasks' = [tasks EXCEPT ![k] =
                                             Raise(task, "commit", <<"database error">>)]
                              /\ UNCHANGED store
        /\ UNCHANGED <<users, inserting, begin_returns>>
        /\ last_resp' = NoResponse

\* str(e) of the exception that reached the handler
error_message_of_absent(task) == None

error_message_of_first(task) == IF task.swallowed # None THEN task.swallowed ELSE task.exc
error_message_of(task) == task.exc

\* except Exception as e: mark the row FAILED with str(e), stamp completed_at,
\* commit; when the load itself raised, the name analysis is unbound and the
\* handler's own exception is only logged, as is a failure of its commit
\* the exception classes raised inside the task; all derive from Exception
\* (SpotifyAPIError through HTTPException)
ExceptionSubclasses ==
    {"SQLAlchemyError", "SpotifyAPIError", "RuntimeError", "KeyError", "UnboundLocalError"}

\* the class of the exception that left the try block
exception_class(task) ==
    CASE task.failed_at = "collect" -> "SpotifyAPIError"
      [] task.failed_at = "persist" -> "KeyError"
      [] task.failed_at = "issue" /\ task.exc # Some(<<"database error">>) -> "RuntimeError"
      [] OTHER -> "SQLAlchemyError"

except_SpotifyAPIError(cls) == cls = "SpotifyAPIError"

\* "except Exception": the outer handler and the one around the FAILED commit
except_Exception(cls) == cls \in ExceptionSubclasses

failure_update_without_status(task, t) ==
    [error_message |-> error_message_of(task), completed_at |-> Some(t)]

failure_update_unstamped(task, t) ==
    [status |-> FAILED, error_message |-> error_message_of(task)]

\* the handler's assignments when the job was loaded
failure_update(task, t) ==
    [status |-> FAILED, error_message |-> error_message_of(task), completed_at |-> Some(t)]

ExecHandleFailure(k) ==
    LET task == tasks[k]
        id == task.analysis_id
    IN  /\ k \in TaskIds /\ task.pc = "failed"
        /\ IF ~except_Exception(exception_class(task))
           THEN /\ tasks' = [tasks EXCEPT ![k] = Return(task, "propagated")]
                /\ UNCHANGED <<store, now>>
           ELSE IF task.failed_at = "load"
           THEN \* "if analysis:" raises UnboundLocalError inside the inner try
                /\ tasks' = [tasks EXCEPT ![k] =
                               Return(task, IF except_Exception("UnboundLocalError")
                                            THEN "unbound" ELSE "propagated")]
                /\ UNCHANGED <<store, now>>
           ELSE \E t \in now..MaxTime, db_ok \in BOOLEAN :
                  LET pending == Set(task.pending, failure_update(task, t))
                  IN  /\ now' = t
                      /\ IF CommitOk(store, id, pending, db_ok)
                         THEN /\ store' = Committed(store, id, pending)
                              /\ tasks' = [tasks EXCEPT ![k] = Return(task, "failed")]
                         ELSE /\ tasks' = [tasks EXCEPT ![k] =
                                    Return(task, IF except_Exception("SQLAlchemyError")
                                                 THEN "commit_failed" ELSE "propagated")]
                              /\ UNCHANGED store
        /\ UNCHANGED <<users, inserting, begin_returns>>
        /\ last_resp' = NoResponse

\* the task queue hands a job to the worker again after the previous execution
\* of that job has returned (at-least-once delivery)
Redeliver(id) ==
    /\ id \in RowIds(store)
    /\ \A k \in TaskIds : tasks[k].analysis_id = id => tasks[k].pc = "done"
    /\ Cardinality({k \in TaskIds : tasks[k].analysis_id = id}) < MaxRedeliveries
    /\ tasks' = Append(tasks, NewTask(id, store[id].user_id))
    /\ UNCHANGED <<store, users, now, inserting, begin_returns>>
    /\ last_resp' = NoResponse

----------------------------------------------------------------------------
(* the synchronous endpoint: MusicAnalysisService.analyze_user_music_taste *)

\* generate_unique_share_token run to its end: a token no row holds, or None
\* when every attempt collided
IssueOutcomes(s) ==
    {Some(tok) : tok \in {x \in Tokens : RowsWithToken(s, x) = {}}}
        \cup (IF \E x \in Tokens : RowsWithToken(s, x) # {} THEN {None} ELSE {})

\* the verdicts MusicAnalysisService._analyze_music_with_ai can reach
LegacyVerdicts ==
    {service_analyze_music_with_ai(CollectedData(p[1], p[2]), reply) :
        p \in PipelineInputs, reply \in ProviderReplies}

LegacyAnalyze(u) ==
    \E t \in now..MaxTime,
       resp \in (IF ChecksExpiry(users[u]) THEN PipelineRefreshOutcomes ELSE {RefreshFailed}) :
      LET r == get_valid_access_token(users[u], t, resp, TRUE)
      IN  /\ now' = t
          /\ users' = [users EXCEPT ![u] = r.user]
          /\ IF ~r.ok \/ ~UserIdUnique(store, u) \/ Len(store) >= MaxRows
             THEN \* SpotifyAPIError("Failed to analyze music taste: ...")
                  UNCHANGED store
             ELSE \E result \in LegacyVerdicts, issued \in IssueOutcomes(store) :
                  IF issued # None /\ "x_axis_pos" \in DOMAIN result
                  THEN store' = Append(store,
                              [MusicAnalysisResult(u, t) EXCEPT
                                  !.rating_text = Some(result["rating_text"]),
                                  !.rating_description = Some(result["rating_description"]),
                                  !.x_axis_pos = Some(result["x_axis_pos"]),
                                  !.y_axis_pos = Some(result["y_axis_pos"]),
                                  !.share_token = issued])
                  ELSE UNCHANGED store
          /\ UNCHANGED <<inserting, tasks, begin_returns>>
          /\ last_resp' = NoResponse

----------------------------------------------------------------------------
(* Specifications *)

\* the job of owner 2 as its execution left it: completed with the no-data verdict
ForeignRow ==
    [MusicAnalysisResult(2, 0) EXCEPT
        !.status = COMPLETED,
        !.rating_text = Some(DefaultAnalysis["rating_text"]),
        !.rating_description = Some(DefaultAnalysis["rating_description"]),
        !.x_axis_pos = Some(DefaultAnalysis["x_axis_pos"]),
        !.y_axis_pos = Some(DefaultAnalysis["y_axis_pos"]),
        !.share_token = Some(generate_share_token("a")),
        !.started_at = Some(0), !.completed_at = Some(0)]

InitialStores == {<<>>, <<ForeignRow>>}

Init ==
    /\ store \in InitialStores
    /\ users = PipelineCredentials
    /\ now = 0
    /\ inserting = [u \in Owners |-> 0]
    /\ tasks = <<>>
    /\ begin_returns = {}
    /\ last_resp = NoResponse

Begin == \E u \in Callers : BeginLookup(u) \/ BeginInsert(u)

Execute ==
    \E k \in TaskSlots :
        \/ ExecStart(k)
        \/ ExecCollect(k)
        \/ ExecAnalyze(k)
        \/ ExecIssueAttempt(k)
        \/ ExecPersist(k)
        \/ ExecHandleFailure(k)

Requests ==
    \/ \E u \in Owners : Poll(u)
    \/ \E u \in Owners : GetResult(u)
    \/ \E tok \in LookupTokens : GetPublicResult(tok)

Legacy == \E u \in Callers : LegacyAnalyze(u)

\* the job pipeline
Next == Begin \/ Execute \/ Legacy

Spec == Init /\ [][Next]_vars

\* the pipeline and the read requests
NextApi == Next \/ Requests

SpecApi == Init /\ [][NextApi]_vars

\* a job that is already in the store, under at-least-once delivery of its
\* background task
Redelivery == \E id \in RowIds(store) : Redeliver(id)

NextRetry == Execute \/ Redelivery

SpecRetry == Init /\ [][NextRetry]_vars

\* process_music_analysis_task invoked directly, for the job of any row and
\* for an analysis_id no row has, against stores of up to two jobs
PendingJobs == <<MusicAnalysisResult(1, 0), MusicAnalysisResult(2, 0)>>

InitExec ==
    /\ store \in InitialStores \cup {PendingJobs}
    /\ users = PipelineCredentials
    /\ now = 0
    /\ inserting = [u \in Owners |-> 0]
    /\ tasks = <<>>
    /\ begin_returns = {}
    /\ last_resp = NoResponse

Invoke(id, u) ==
    /\ Len(tasks) < Cardinality(TaskSlots)
    /\ \A k \in TaskIds : tasks[k].analysis_id # id
    /\ id \in RowIds(store) => u = store[id].user_id
    /\ tasks' = Append(tasks, NewTask(id, u))
    /\ UNCHANGED <<store, users, now, inserting, begin_returns>>
    /\ last_resp' = NoResponse

Invocation == \E id \in 1..MaxRows, u \in Owners : Invoke(id, u)

NextExec == Invocation \/ Execute

SpecExec == InitExec /\ [][NextExec]_vars

\* ---- the pure functions, applied to inputs drawn from bounded sets ----

MaxScore == 20

ScoreValues == (-MaxScore..MaxScore) \cup {NaN, NonNumeric}

\* JSON objects with any subset of the schema's fields and any score values
JsonObjects ==
    UNION {
        {[f \in fields |->
            CASE f = "rating_text" -> "CHAOTIC GOBLIN"
              [] f = "rating_description" -> <<"ai prose">>
              [] f = "critical_acclaim_score" -> x
              [] f = "music_snob_score" -> y] :
         x \in (IF "critical_acclaim_score" \in fields THEN ScoreValues ELSE {0}),
         y \in (IF "music_snob_score" \in fields THEN ScoreValues ELSE {0})} :
        fields \in SUBSET SchemaFields}

ClientReplies ==
    {NetworkError, EmptyContent, InvalidJson} \cup {JsonReply(obj) : obj \in JsonObjects}

InitFn ==
    /\ store = <<>>
    /\ users = PipelineCredentials
    /\ now = 0
    /\ inserting = [u \in Owners |-> 0]
    /\ tasks = <<>>
    /\ begin_returns = {}
    /\ last_resp = NoResponse

CallAnalyzeMusicTaste ==
    /\ last_resp = NoResponse
    /\ \E reply \in ClientReplies :
            last_resp' = Answer("analyze_music_taste", reply, analyze_music_taste(reply))
    /\ UNCHANGED <<store, users, now, inserting, tasks, begin_returns>>

CollectorUpstreams == UpstreamData \cup {ManyTracksUpstream}

CollectInput(user, t, resp, db_ok, up, failing) ==
    [user |-> user, t |-> t, resp |-> resp, db_ok |-> db_ok, up |-> up, failing |-> failing]

CallFetchUserMusicData ==
    /\ last_resp = NoResponse
    /\ \E user \in InitialCredentials, t \in Times, resp \in PipelineRefreshOutcomes,
          up \in CollectorUpstreams, failing \in SUBSET SingleSubFetches :
            last_resp' = Answer("fetch_user_music_data",
                                CollectInput(user, t, resp, TRUE, up, failing),
                                fetch_user_music_data(user, t, resp, TRUE, up, failing))
    /\ UNCHANGED <<store, users, now, inserting, tasks, begin_returns>>

\* inputs of the fallback rule engine: one track of each popularity band (or
\* none), optionally a track in a second window just under 30 or just over 70,
\* an artist with any subset of the sample genres, and optionally a
\* second artist with eight more genres
SamplePopularities == {20, 30, 50, 70, 80}
SampleGenres == {"pop", "Mainstream Rock", "experimental", "jazz"}
MoreGenresSeq == <<"g1", "g2", "g3", "g4", "g5", "g6", "g7", "g8">>
MoreGenres == SeqRange(MoreGenresSeq)

FallbackInputs ==
    {MusicData([NoItems EXCEPT !["short_term"] = tracks, !["medium_term"] = second],
               [NoItems EXCEPT !["short_term"] = <<Artist(1, gs)>>,
                               !["long_term"] = more],
               <<>>, <<>>) :
        tracks \in {<<>>} \cup {<<Track(1, p)>> : p \in SamplePopularities},
        second \in {<<>>, <<Track(2, 29)>>, <<Track(2, 71)>>},
        gs \in SUBSET SampleGenres,
        more \in {<<>>, <<Artist(2, MoreGenres)>>}}

\* two invocations on the same data; each iterates the genre set in an order
\* of its own (the genres beyond the sample keep one order)
CallFallbackAnalysis ==
    /\ last_resp = NoResponse
    /\ \E d \in FallbackInputs :
         LET sample == Genres(d) \cap SampleGenres
             rest == IF MoreGenres \subseteq Genres(d) THEN MoreGenresSeq ELSE <<>>
         IN  \E o1 \in Orders(sample), o2 \in Orders(sample) :
                last_resp' = Answer("fallback_analysis",
                                    [d |-> d, first |-> o1 \o rest, second |-> rest \o o2],
                                    <<fallback_analysis_ordered(d, o1 \o rest),
                                      fallback_analysis_ordered(d, rest \o o2)>>)
    /\ UNCHANGED <<store, users, now, inserting, tasks, begin_returns>>

\* stored credentials with every combination of access token, refresh token
\* and expiry before, at and after the safety margin
ExpiryValues == 0..(MaxTime + TokenMargin + 2)
StoredCredentials ==
    {Credential(at, rt, exp) :
        at \in {None, Some("at0")}, rt \in {None, Some("rt0")},
        exp \in {None} \cup {Some(e) : e \in ExpiryValues}}

TokenInput(user, t, resp, db_ok) == [user |-> user, t |-> t, resp |-> resp, db_ok |-> db_ok]

CallGetValidAccessToken ==
    /\ last_resp = NoResponse
    /\ \E user \in StoredCredentials, t \in Times, resp \in RefreshOutcomes, db_ok \in BOOLEAN :
            last_resp' = Answer("get_valid_access_token", TokenInput(user, t, resp, db_ok),
                                get_valid_access_token(user, t, resp, db_ok))
    /\ UNCHANGED <<store, users, now, inserting, tasks, begin_returns>>

\* datasets for the analysis step: those of the fallback rule engine, none at
\* all, and mid-range popularity with lively, sad and even audio features
AnalyzeInputs ==
    FallbackInputs \cup {EmptyData}
        \cup {MusicData([NoItems EXCEPT !["short_term"] = <<Track(1, 50)>>], NoItems, <<>>,
                         <<f, None>>) :
                f \in {Feature(8, 5, 8), Feature(5, 2, 5), Feature(5, 5, 5)}}

\* the analysis step of the background task and that of AnalysisCoordinator on
\* the same dataset and the same reply of the AI provider
CallAnalyzeMusicWithAi ==
    /\ last_resp = NoResponse
    /\ \E d \in AnalyzeInputs, reply \in ProviderReplies :
            last_resp' = Answer("_analyze_music_with_ai", [d |-> d, reply |-> reply],
                                <<analyze_music_with_ai(d, reply).result,
                                  coordinator_analyze_music_with_ai(d, reply)>>)
    /\ UNCHANGED <<store, users, now, inserting, tasks, begin_returns>>

\* datasets for the summarizer: any top artists out of three in each window
\* (a window lists an artist once), no track or tracks in one or two windows
SummaryArtists == {<<>>, <<Artist(1, {"pop"})>>, <<Artist(2, {"jazz"})>>,
                   <<Artist(1, {"pop"}), Artist(2, {"jazz"})>>,
                   <<Artist(2, {"jazz"}), Artist(3, {})>>,
                   <<Artist(1, {"pop"}), Artist(2, {"jazz"}), Artist(3, {})>>}
SummaryTracks ==
    {NoItems,
     [NoItems EXCEPT !["short_term"] = <<Track(1, 75), Track(2, 60)>>],
     [NoItems EXCEPT !["short_term"] = <<Track(1, 75)>>, !["long_term"] = <<Track(1, 75)>>]}
SummaryInputs ==
    {MusicData(tt, [w \in WindowSet |->
                       CASE w = "short_term" -> a1 [] w = "medium_term" -> a2 [] OTHER -> a3],
               rp, <<>>) :
        tt \in SummaryTracks, a1 \in SummaryArtists, a2 \in SummaryArtists,
        a3 \in SummaryArtists, rp \in {<<>>, <<5>>}}

CallPrepareMusicSummary ==
    /\ last_resp = NoResponse
    /\ \E d \in SummaryInputs :
            last_resp' = Answer("_prepare_music_summary", d, prepare_music_summary(d))
    /\ UNCHANGED <<store, users, now, inserting, tasks, begin_returns>>

NextFn ==
    \/ CallPrepareMusicSummary
    \/ CallAnalyzeMusicWithAi
    \/ CallAnalyzeMusicTaste
    \/ CallFetchUserMusicData
    \/ CallFallbackAnalysis
    \/ CallGetValidAccessToken

SpecFn == InitFn /\ [][NextFn]_vars

----------------------------------------------------------------------------
(* SpotifyDataCollector.fetch_user_music_data, request by request: the     *)
(* collection in progress is held in last_resp as                          *)
(* Answer("collecting", upstream, frame)                                   *)

\* the order of the awaits of _fetch_top_items and _fetch_recently_played
SubFetchOrder ==
    <<<<"top_tracks", "short_term">>, <<"top_artists", "short_term">>,
      <<"top_tracks", "medium_term">>, <<"top_artists", "medium_term">>,
      <<"top_tracks", "long_term">>, <<"top_artists", "long_term">>,
      <<"recently_played">>>>

\* what the provider answers to a sub-fetch
upstream_items(up, f) ==
    CASE f[1] = "top_tracks" -> up.top_tracks[f[2]]
      [] f[1] = "top_artists" -> up.top_artists[f[2]]
      [] OTHER -> up.recently_played

track_ids_top_only(data) ==
    UNION {{data[<<"top_tracks", w>>][i].id : i \in 1..Len(data[<<"top_tracks", w>>])} :
              w \in WindowSet}

\* track_ids of _fetch_audio_features: the ids of the top tracks of the three
\* windows and of the recently played items
track_ids(data) ==
    UNION {{data[<<"top_tracks", w>>][i].id : i \in 1..Len(data[<<"top_tracks", w>>])} :
              w \in WindowSet}
        \cup SeqRange(data[<<"recently_played">>])

\* track_ids_list[i : i + 100] for the b-th batch
batch_ids(ids, b) ==
    SubSeq(ids, (b - 1) * BatchSize + 1,
           IF b * BatchSize < Len(ids) THEN b * BatchSize ELSE Len(ids))

Collecting == last_resp.op = "collecting"

\* music_data = {}
CollectBegin ==
    /\ last_resp = NoResponse
    /\ \E up \in CollectorUpstreams :
          last_resp' = Answer("collecting", up,
                              [stage |-> "sub_fetches", next |-> 1, data |-> <<>>,
                               requests |-> <<>>, ids |-> <<>>, audio_features |-> <<>>])
    /\ UNCHANGED <<store, users, now, inserting, tasks, begin_returns>>

\* one sub-fetch of _fetch_top_items or _fetch_recently_played: the request
\* and its result or the empty placeholder; after the seventh,
\* _fetch_audio_features builds track_ids_list
CollectSubFetch ==
    /\ Collecting /\ last_resp.resp.stage = "sub_fetches"
    /\ \E failed \in BOOLEAN :
          LET fr == last_resp.resp
              f == SubFetchOrder[fr.next]
              data == fr.data @@ (f :> fetch_slot(upstream_items(last_resp.arg, f), failed))
              last == fr.next = Len(SubFetchOrder)
          IN  last_resp' =
                Answer("collecting", last_resp.arg,
                       [fr EXCEPT !.data = data,
                                  !.requests = Append(fr.requests, f),
                                  !.next = IF last THEN 1 ELSE fr.next + 1,
                                  !.stage = IF last THEN "batches" ELSE "sub_fetches",
                                  !.ids = IF last THEN SortedSeq(track_ids(data)) ELSE <<>>])
    /\ UNCHANGED <<store, users, now, inserting, tasks, begin_returns>>

\* one iteration of the batch loop: get_audio_features on up to 100 ids; a
\* failed batch is skipped
CollectBatch ==
    /\ Collecting /\ last_resp.resp.stage = "batches"
    /\ (last_resp.resp.next - 1) * BatchSize < Len(last_resp.resp.ids)
    /\ \E failed \in BOOLEAN :
          LET fr == last_resp.resp
              batch == batch_ids(fr.ids, fr.next)
              up == last_resp.arg
              got == [j \in 1..Len(batch) |->
                        IF batch[j] \in DOMAIN up.features THEN up.features[batch[j]]
                        ELSE None]
          IN  last_resp' =
                Answer("collecting", up,
                       [fr EXCEPT !.requests = Append(fr.requests, <<"audio_features", batch>>),
                                  !.next = fr.next + 1,
                                  !.audio_features =
                                      IF failed THEN fr.audio_features
                                      ELSE fr.audio_features \o got])
    /\ UNCHANGED <<store, users, now, inserting, tasks, begin_returns>>

\* music_data["audio_features"] = audio_features; return music_data
CollectReturn ==
    /\ Collecting /\ last_resp.resp.stage = "batches"
    /\ (last_resp.resp.next - 1) * BatchSize >= Len(last_resp.resp.ids)
    /\ last_resp' = Answer("collecting", last_resp.arg,
                           [last_resp.resp EXCEPT !.stage = "returned"])
    /\ UNCHANGED <<store, users, now, inserting, tasks, begin_returns>>

NextCollect == CollectBegin \/ CollectSubFetch \/ CollectBatch \/ CollectReturn

SpecCollect == InitFn /\ [][NextCollect]_vars

----------------------------------------------------------------------------
(* SpotifyMusicClient._make_request, attempt by attempt *)

Requesting == last_resp.op = "_make_request"

MakeRequestBegin ==
    /\ last_resp = NoResponse
    /\ last_resp' = Answer("_make_request", DefaultRetries,
                           [attempt |-> 0, seen |-> <<>>, waits |-> <<>>, result |-> None])
    /\ UNCHANGED <<store, users, now, inserting, tasks, begin_returns>>

\* for attempt in range(retries + 1): the loop ends with the call; the raise
\* after the loop is never reached, since the last iteration cannot continue
MakeRequestAttempt ==
    /\ Requesting /\ last_resp.resp.result = None
    /\ last_resp.resp.attempt <= last_resp.arg
    /\ \E o \in AttemptOutcomes :
          LET fr == last_resp.resp
              r == make_request_attempt(fr.attempt, last_resp.arg, o)
          IN  last_resp' =
                Answer("_make_request", last_resp.arg,
                       [attempt |-> fr.attempt + 1,
                        seen |-> Append(fr.seen, o),
                        waits |-> IF r.done THEN fr.waits ELSE Append(fr.waits, r.wait[1]),
                        result |-> IF r.done THEN Some(r.result) ELSE None])
    /\ UNCHANGED <<store, users, now, inserting, tasks, begin_returns>>

NextHttp == MakeRequestBegin \/ MakeRequestAttempt

SpecHttp == InitFn /\ [][NextHttp]_vars

\* the background task of one owner racing the synchronous analyze of another:
\* two share tokens are issued against the same store
LegacyOther == \E u \in Owners \ Callers : LegacyAnalyze(u)

NextShare == Begin \/ Execute \/ LegacyOther

SpecShare == Init /\ [][NextShare]_vars

----------------------------------------------------------------------------
(* Properties *)

JobOf(k) == store[tasks[k].analysis_id]
Populated(row) == \A f \in ResultFields : row[f] # None
Blank(row) == \A f \in ResultFields : row[f] = None
Done(k) == tasks[k].pc = "done"

\* C1: however often and however concurrently an owner calls begin, the store
\* holds at most one job of that owner, every call returns the id of that job
\* (the loser of the insert race included), and the job is handed to the
\* background task once only.
C1_BeginIdempotent ==
    /\ \A u \in Owners : Cardinality(RowsOfUser(store, u)) <= 1
    /\ \A r \in begin_returns : RowsOfUser(store, r[1]) = {r[2]}
    /\ \A id \in RowIds(store) :
          Cardinality({k \in TaskIds : tasks[k].analysis_id = id}) <= 1
    /\ \A r \in begin_returns :
          r[3] = "created" => \E k \in TaskIds : tasks[k].analysis_id = r[2]

\* two racing calls and a later one all got the job that is now running
C1_Witness ==
    \E id \in RowIds(store) :
        /\ {<<1, id, "created">>, <<1, id, "lost_race">>, <<1, id, "existing">>}
              \subseteq begin_returns
        /\ store[id].status = PROCESSING

\* C2: a job that execute() has worked on has its result fields all null while
\* its status is not COMPLETED and all non-null once it is COMPLETED.
C2_AllOrNothing ==
    \A k \in TaskIds :
        IF JobOf(k).status = COMPLETED THEN Populated(JobOf(k)) ELSE Blank(JobOf(k))

\* C3: a job whose status is COMPLETED or FAILED is never changed again.
C3_TerminalSticky ==
    [][\A id \in RowIds(store) :
          store[id].status \in {COMPLETED, FAILED} => store'[id] = store[id]]_vars

\* the stages of execute() whose exception reaches the handler
AbortingStages == {"collect", "issue", "persist", "commit"}

\* the messages of the AI client's errors, which _analyze_music_with_ai swallows
SwallowedMessages ==
    {analyze_music_taste(reply).error :
        reply \in {r \in ProviderReplies : ~analyze_music_taste(r).ok}}

\* C4 as stated: once execute() has returned after a stage raised, the job is
\* FAILED, completed_at is stamped and error_message is the message of the
\* exception that aborted it.
C4_FailureRecorded ==
    \A k \in TaskIds :
        Done(k) /\ tasks[k].failed_at \in AbortingStages =>
            /\ JobOf(k).status = FAILED
            /\ JobOf(k).completed_at # None
            /\ JobOf(k).error_message = tasks[k].exc

\* C4 amended: the same, provided the commit that records FAILED succeeds; a
\* swallowed AI error is never the recorded message; when that commit fails
\* too, the job stays PROCESSING with no error_message and no completed_at.
C4_FailureRecordedUnlessCommitFails ==
    \A k \in TaskIds :
        Done(k) /\ tasks[k].failed_at \in AbortingStages =>
            IF tasks[k].recorded = "failed"
            THEN /\ JobOf(k).status = FAILED
                 /\ JobOf(k).completed_at # None
                 /\ JobOf(k).error_message = tasks[k].exc
                 /\ \A m \in SwallowedMessages : JobOf(k).error_message # Some(m)
            ELSE /\ tasks[k].recorded = "commit_failed"
                 /\ JobOf(k).status = PROCESSING
                 /\ JobOf(k).error_message = None
                 /\ JobOf(k).completed_at = None

\* the AI failed and was swallowed, then every share-token attempt collided
C4_Witness ==
    \E k \in TaskIds :
        /\ Done(k) /\ tasks[k].failed_at = "issue" /\ tasks[k].recorded = "failed"
        /\ tasks[k].ai = "failed"
        /\ JobOf(k).error_message =
              Some(<<"Failed to generate unique share token after maximum attempts">>)

\* C5: when the AI client fails, the step that analyzes leaves the fallback's
\* verdict on the data collected, and an execution that returns after it without
\* a failure of share-token issuance or of the final commit leaves the job
\* COMPLETED with every result field set.
C5_AiFailureFallsBack ==
    [][\A k \in DOMAIN tasks' :
          tasks'[k].ai = "failed" =>
            /\ k \in TaskIds /\ tasks[k].pc = "analyze" =>
                  /\ tasks'[k].pc = "issue"
                  /\ tasks'[k].analysis_result = fallback_analysis(tasks[k].music_data)
            /\ tasks'[k].pc = "done" /\ tasks'[k].failed_at \notin {"issue", "commit"} =>
                  /\ tasks'[k].failed_at = "none"
                  /\ store'[tasks'[k].analysis_id].status = COMPLETED
                  /\ Populated(store'[tasks'[k].analysis_id])]_vars

C5_Witness ==
    \E k \in TaskIds :
        /\ Done(k) /\ tasks[k].ai = "failed"
        /\ JobOf(k).status = COMPLETED
        /\ JobOf(k).rating_text # Some(DefaultAnalysis["rating_text"])

\* what the environment has to get right for C6
EnvironmentFailures == {"load", "start_commit", "collect", "issue", "commit"}

\* C6: when execute() has returned after the AI client answered and neither
\* token acquisition, collection, share-token issuance nor any commit failed,
\* the job is COMPLETED with every result field set and poll reports COMPLETED.
C6_CompletesWhenStagesSucceed ==
    \A k \in TaskIds :
        /\ Done(k) /\ tasks[k].ai = "ok"
        /\ tasks[k].failed_at \notin EnvironmentFailures
        /\ tasks[k].recorded # "commit_failed"
        => /\ JobOf(k).status = COMPLETED
           /\ Populated(JobOf(k))
           /\ poll_analysis(store, tasks[k].user_id).status = COMPLETED

\* a token that a job holds while the job is not COMPLETED or lacks a result field
IncompleteToken(tok) ==
    \E id \in RowsWithToken(store, tok) :
        store[id].status # COMPLETED \/ ~Populated(store[id])

\* C7: a public lookup of a token held by an incomplete job is answered exactly
\* like the lookup of a token no job ever held.
C7_IncompleteLikeUnknown ==
    last_resp.op = "public" /\ IncompleteToken(last_resp.arg) =>
        last_resp.resp = get_analysis_by_share_token(store, UnusedToken)

\* C8: a public lookup returns result data only when a job holds the token, is
\* COMPLETED and has every result field set.
C8_ResultOnlyWhenCompleted ==
    last_resp.op = "public" /\ last_resp.resp.kind = "ok" =>
        \E id \in RowsWithToken(store, last_resp.arg) :
            store[id].status = COMPLETED /\ Populated(store[id])

\* C9: getResult answers NotFound (404) when the owner has no job, InvalidState
\* (400) when the job is PENDING, PROCESSING or FAILED, and the stored result
\* only when the job is COMPLETED.
C9_GetResultOutcomes ==
    last_resp.op = "result" =>
        LET rows == RowsOfUser(store, last_resp.arg)
            resp == last_resp.resp
        IN  /\ rows = {} => resp.kind = "NotFound" /\ resp.status_code = 404
            /\ \A id \in rows :
                  /\ store[id].status # COMPLETED =>
                        resp.kind = "InvalidState" /\ resp.status_code = 400
                  /\ resp.kind = "ok" =>
                        /\ store[id].status = COMPLETED
                        /\ \A f \in ResultFields : Some(resp[f]) = store[id][f]

C9_Witness ==
    /\ last_resp.op = "result" /\ last_resp.resp.kind = "InvalidState"
    /\ \E id \in RowsOfUser(store, last_resp.arg) : store[id].status = FAILED

\* C10: a poll leaves the store (and everything else) as it was, answers
\* NotFound when the owner has no job and otherwise the stored status,
\* timestamps and error_message.
C10_PollReadsOnly ==
    [][last_resp'.op = "poll" =>
          /\ store' = store /\ users' = users /\ tasks' = tasks
          /\ LET rows == RowsOfUser(store, last_resp'.arg)
                 resp == last_resp'.resp
             IN  /\ rows = {} => resp.kind = "NotFound" /\ resp.status_code = 404
                 /\ \A id \in rows :
                       /\ resp.kind = "ok" /\ resp.analysis_id = id
                       /\ resp.status = store[id].status
                       /\ resp.error_message = store[id].error_message
                       /\ resp.created_at = store[id].created_at
                       /\ resp.started_at = store[id].started_at
                       /\ resp.completed_at = store[id].completed_at]_vars

C10_Witness ==
    /\ last_resp.op = "poll" /\ last_resp.resp.kind = "ok"
    /\ last_resp.resp.status = FAILED /\ last_resp.resp.error_message # None
    /\ last_resp.resp.completed_at # None

\* C11: the store never holds more than one job of an owner, whatever begin,
\* execute and the synchronous analyze have done and in whatever order.
C11_OneJobPerOwner ==
    \A i, j \in RowIds(store) : store[i].user_id = store[j].user_id => i = j

\* a begin call looked the owner up, the synchronous analyze then stored its
\* row, and the begin call's insert was turned away
C11_Witness ==
    \E id \in RowIds(store) :
        /\ <<1, id, "lost_race">> \in begin_returns
        /\ store[id].status = PENDING /\ Populated(store[id])
        /\ tasks = <<>>

WellFormedToken(tok) ==
    Len(tok) = TokenLength /\ \A i \in 1..Len(tok) : tok[i] \in Alphabet

\* C12: every stored share token is 15 symbols of the 62-symbol alphabet, no
\* two jobs hold the same token, and a step never changes or removes a token
\* a job already holds.
C12_ShareTokens ==
    /\ [](/\ Cardinality(Alphabet) = 62
          /\ \A i \in RowIds(store) :
                store[i].share_token # None =>
                    /\ WellFormedToken(store[i].share_token[1])
                    /\ RowsWithToken(store, store[i].share_token[1]) = {i})
    /\ [][\A i \in RowIds(store) :
            store[i].share_token # None =>
                store'[i].share_token = store[i].share_token]_vars

\* two jobs hold tokens, the second issued and stored by a background task
\* that ran to completion while the first job's token was in the store
C12_Witness ==
    \E i, j \in RowIds(store), k \in TaskIds :
        /\ i # j /\ tasks[k].analysis_id = j /\ tasks[k].pc = "done"
        /\ store[i].share_token # None /\ store[j].share_token # None
        /\ store[i].user_id \notin Callers /\ store[i].status = PENDING
        /\ store[j].status = COMPLETED

\* C13: in every state of the store a job has an error_message exactly when
\* its status is FAILED.
C13_ErrorMessageIffFailed ==
    \A i \in RowIds(store) :
        store[i].error_message # None <=> store[i].status = FAILED

\* the failure handler of a background task has committed FAILED with the
\* text of the exception
C13_Witness ==
    \E k \in TaskIds :
        /\ Done(k) /\ tasks[k].recorded = "failed"
        /\ JobOf(k).status = FAILED
        /\ JobOf(k).error_message = tasks[k].exc /\ tasks[k].exc # None

Terminal == {COMPLETED, FAILED}

TimestampsOrdered(row) ==
    /\ row.started_at # None => row.started_at[1] >= row.created_at
    /\ row.completed_at # None => row.completed_at[1] >= row.created_at
    /\ (row.started_at # None /\ row.completed_at # None) =>
            row.completed_at[1] >= row.started_at[1]

\* C14: created_at, started_at and completed_at of a job are each written
\* once and never changed afterwards: started_at in the step that takes the
\* job from PENDING to PROCESSING, completed_at in the step that takes it into
\* COMPLETED or FAILED, and the timestamps that are set are in order.
C14_TimestampsSetOnce ==
    /\ [](\A i \in RowIds(store) : TimestampsOrdered(store[i]))
    /\ [][\A i \in RowIds(store) :
            LET old == store[i]
                new == store'[i]
            IN  /\ new.created_at = old.created_at
                /\ old.started_at # None => new.started_at = old.started_at
                /\ old.completed_at # None => new.completed_at = old.completed_at
                /\ new.started_at # old.started_at =>
                        old.status = PENDING /\ new.status = PROCESSING
                /\ new.completed_at # old.completed_at =>
                        old.status \notin Terminal /\ new.status \in Terminal
                /\ (old.status = PENDING /\ new.status = PROCESSING) =>
                        new.started_at # None
                /\ (old.status \notin Terminal /\ new.status \in Terminal) =>
                        new.completed_at # None]_vars

\* a job created at one time, started later and taken to a terminal status by
\* its background task, all three timestamps set
C14_Witness ==
    \E k \in TaskIds :
        /\ Done(k) /\ JobOf(k).status \in Terminal
        /\ JobOf(k).started_at # None /\ JobOf(k).completed_at # None
        /\ JobOf(k).started_at[1] > JobOf(k).created_at

ScoreRange == -10..10

\* C15: every COMPLETED job has both stored scores within [-1.0, 1.0] (here
\* -10..10 tenths), whichever branch produced the verdict and whatever the
\* provider replied.
C15_StoredScoresInRange ==
    \A i \in RowIds(store) :
        store[i].status = COMPLETED =>
            /\ store[i].x_axis_pos # None /\ store[i].x_axis_pos[1] \in ScoreRange
            /\ store[i].y_axis_pos # None /\ store[i].y_axis_pos[1] \in ScoreRange

ClientCalled == last_resp.op = "analyze_music_taste"

ClientReturned == ClientCalled /\ last_resp.resp.ok

ClientFailedTyped ==
    /\ ~last_resp.resp.ok
    /\ last_resp.resp.error \in
         {<<"AI analysis failed", "Empty response from AI">>,
          <<"Invalid JSON response from AI">>,
          <<"AI analysis failed", "Missing required field">>}

\* C17: the client fails with its typed error, and returns no verdict, when
\* the reply body is empty, is not JSON, or lacks any of the four required
\* fields; it returns a verdict only for a JSON reply that has all four.
C17_ClientRejectsBadReplies ==
    ClientCalled =>
        LET reply == last_resp.arg
        IN  /\ (\/ reply.kind \in {"empty", "invalid_json"}
                \/ reply.kind = "json" /\ \E f \in SchemaFields : f \notin DOMAIN reply.obj)
                    => ClientFailedTyped
            /\ last_resp.resp.ok =>
                    /\ reply.kind = "json"
                    /\ SchemaFields \subseteq DOMAIN reply.obj
                    /\ SchemaFields \subseteq DOMAIN last_resp.resp.value

\* a reply with three of the four fields (the description is missing) was
\* rejected with the typed error
C17_Witness ==
    /\ ClientCalled
    /\ last_resp.arg.kind = "json"
    /\ DOMAIN last_resp.arg.obj = SchemaFields \ {"rating_description"}
    /\ last_resp.resp = Err(<<"AI analysis failed", "Missing required field">>)

CollectCalled == last_resp.op = "fetch_user_music_data"

\* the audio features expected from the collected tracks: one entry per
\* distinct track id of the collected slots, in id order, without the ids
\* whose batch failed
ExpectedFeatures(d, up, failing) ==
    LET ids == SortedSeq(UNION {{d.top_tracks[w][i].id : i \in 1..Len(d.top_tracks[w])} :
                                    w \in WindowSet}
                            \cup SeqRange(d.recently_played))
        ok(i) == /\ <<"audio_features">> \notin failing
                 /\ <<"audio_features", BatchOf(i)>> \notin failing
        positions == SortedSeq({i \in 1..Len(ids) : ok(i)})
    IN  [j \in 1..Len(positions) |->
            IF ids[positions[j]] \in DOMAIN up.features
            THEN up.features[ids[positions[j]]] ELSE None]

FallbackCalled == last_resp.op = "fallback_analysis"

\* C20: two invocations of the fallback rule engine on the same collected data
\* return the same label, description and score pair, whatever order each
\* iterates the genre set in; the result is a function of the data alone.
C20_FallbackDeterministic ==
    FallbackCalled =>
        /\ last_resp.resp[1] = last_resp.resp[2]
        /\ last_resp.resp[1] = fallback_analysis(last_resp.arg.d)
        /\ DOMAIN last_resp.resp[1] =
             {"rating_text", "rating_description", "x_axis_pos", "y_axis_pos"}

\* low popularity, "experimental" first in one iteration order and last in the
\* other: both invocations answer PRETENTIOUS HIPSTER
C20_Witness ==
    /\ FallbackCalled
    /\ Len(last_resp.arg.first) = 4
    /\ last_resp.arg.first[1] = "experimental"
    /\ last_resp.arg.second[4] = "experimental"
    /\ last_resp.resp[1]["rating_text"] = "PRETENTIOUS HIPSTER"
    /\ last_resp.resp[2]["rating_text"] = "PRETENTIOUS HIPSTER"

NoListeningData(d) ==
    (\A w \in WindowSet : Len(d.top_tracks[w]) = 0) /\ Len(d.recently_played) = 0

\* the execution analyzed a dataset without calling the AI client and went on
\* to the stages after the analysis
AnalyzedWithoutAi(task) ==
    /\ task.ai = "not_called"
    /\ \/ task.pc \in {"issue", "persist"}
       \/ task.failed_at \in {"issue", "persist", "commit"}
       \/ task.recorded = "completed"

MysteriousListener(row) ==
    /\ row.rating_text = Some("MYSTERIOUS LISTENER")
    /\ row.x_axis_pos = Some(0) /\ row.y_axis_pos = Some(0)

\* C18 as stated: an execution whose collected data had no top tracks in any
\* window and nothing recently played leaves the job COMPLETED with the
\* MYSTERIOUS LISTENER verdict and scores (0.0, 0.0).
C18_NoDataCompletes ==
    \A k \in TaskIds :
        Done(k) /\ AnalyzedWithoutAi(tasks[k]) =>
            JobOf(k).status = COMPLETED /\ MysteriousListener(JobOf(k))

\* C18, amended: on collected data with no top tracks in any window and nothing
\* recently played the analysis step takes the fixed MYSTERIOUS LISTENER
\* verdict with scores (0.0, 0.0) and the AI client is not invoked then or
\* later in the execution; the execution completes the job with that verdict
\* unless share-token issuance or a commit fails, in which case the job is
\* FAILED, or PROCESSING when the failure handler's commit fails too.
C18_NoDataCompletesUnlessLaterStageFails ==
    /\ [][\A k \in TaskIds :
            /\ (tasks[k].pc = "analyze" /\ tasks'[k].pc # "analyze"
                    /\ NoListeningData(tasks[k].music_data)) =>
                  /\ tasks'[k].ai = "not_called"
                  /\ tasks'[k].analysis_result["rating_text"] = "MYSTERIOUS LISTENER"
                  /\ tasks'[k].analysis_result["x_axis_pos"] = 0
                  /\ tasks'[k].analysis_result["y_axis_pos"] = 0
            /\ (tasks[k].pc = "analyze" /\ tasks'[k].pc # "analyze"
                    /\ tasks'[k].ai = "not_called") =>
                  NoListeningData(tasks[k].music_data)
            /\ AnalyzedWithoutAi(tasks[k]) => tasks'[k].ai = "not_called"]_vars
    /\ [](\A k \in TaskIds :
            Done(k) /\ AnalyzedWithoutAi(tasks[k]) =>
                /\ tasks[k].failed_at \in {"none", "issue", "commit"}
                /\ tasks[k].failed_at = "none" =>
                      JobOf(k).status = COMPLETED /\ MysteriousListener(JobOf(k))
                /\ tasks[k].failed_at # "none" =>
                      /\ JobOf(k).status \in {FAILED, PROCESSING}
                      /\ JobOf(k).status = FAILED <=> tasks[k].recorded = "failed")

\* an execution on empty collected data has returned with the job COMPLETED
\* under the fixed verdict, the AI client never called
C18_Witness ==
    \E k \in TaskIds :
        /\ Done(k) /\ tasks[k].ai = "not_called" /\ tasks[k].recorded = "completed"
        /\ JobOf(k).status = COMPLETED /\ MysteriousListener(JobOf(k))

TasksOfJob(ts, id) == {k \in DOMAIN ts : ts[k].analysis_id = id}

\* C21: once a job is FAILED no step changes its row, gives its owner another
\* row or schedules another execution of it; a poll by the owner answers
\* FAILED with the stored error_message, and a begin by the owner can only
\* return the job that is there.
C21_FailedStaysInspectable ==
    [][\A i \in RowIds(store) :
          store[i].status = FAILED =>
            LET u == store[i].user_id
            IN  /\ store'[i] = store[i]
                /\ RowsOfUser(store', u) = {i}
                /\ TasksOfJob(tasks', i) = TasksOfJob(tasks, i)
                /\ \A k \in TasksOfJob(tasks, i) : tasks'[k] = tasks[k]
                /\ \A r \in begin_returns' \ begin_returns :
                        r[1] = u => r[2] = i /\ r[3] \in {"existing", "lost_race"}
                /\ (last_resp'.op = "poll" /\ last_resp'.arg = u) =>
                        /\ last_resp'.resp.kind = "ok"
                        /\ last_resp'.resp.analysis_id = i
                        /\ last_resp'.resp.status = FAILED
                        /\ last_resp'.resp.error_message = store[i].error_message
                        /\ last_resp'.resp.error_message # None]_vars

\* the owner's job has failed, a begin call has returned that job, and the
\* owner's poll has just answered FAILED with the message
C21_Witness ==
    \E i \in RowIds(store) :
        /\ store[i].status = FAILED /\ store[i].user_id \in Callers
        /\ <<store[i].user_id, i, "existing">> \in begin_returns
        /\ last_resp.op = "poll" /\ last_resp.arg = store[i].user_id
        /\ last_resp.resp.status = FAILED
        /\ last_resp.resp.error_message = store[i].error_message

TokenCalled == last_resp.op = "get_valid_access_token"

\* C22: with an access token stored, get_valid_access_token returns it without
\* calling the provider when no expiry is recorded or the expiry is more than
\* the 5-minute margin after now; when the expiry is at or before now + 5
\* minutes it calls the provider's refresh, and when that and the save
\* succeed the stored access token, refresh token and expiry (now +
\* expires_in) are those of the refresh and the new access token is returned.
C22_TokenValidOrRefreshed ==
    TokenCalled =>
        LET a == last_resp.arg
            r == last_resp.resp
            exp == a.user.token_expires_at
        IN  a.user.access_token # None =>
            /\ (exp = None \/ (exp # None /\ exp[1] > a.t + 5)) =>
                    /\ r.ok /\ ~r.contacted
                    /\ r.value = a.user.access_token[1]
                    /\ r.user = a.user
            /\ (exp # None /\ exp[1] <= a.t + 5 /\ a.user.refresh_token # None) =>
                    /\ r.contacted
                    /\ (a.resp.ok /\ a.db_ok) =>
                        /\ r.ok /\ r.value = a.resp.access_token
                        /\ r.user.access_token = Some(a.resp.access_token)
                        /\ r.user.refresh_token =
                             (IF a.resp.refresh_token = None THEN a.user.refresh_token
                              ELSE a.resp.refresh_token)
                        /\ r.user.token_expires_at = Some(a.t + a.resp.expires_in)
                    /\ ~(a.resp.ok /\ a.db_ok) => ~r.ok /\ r.user = a.user
            /\ (exp # None /\ exp[1] <= a.t + 5 /\ a.user.refresh_token = None) =>
                    ~r.ok /\ ~r.contacted /\ r.user = a.user

\* the expiry is exactly five minutes after now: the token was refreshed and
\* all three stored fields replaced
C22_Witness ==
    /\ TokenCalled /\ last_resp.resp.ok /\ last_resp.resp.contacted
    /\ last_resp.arg.user.token_expires_at = Some(last_resp.arg.t + 5)
    /\ last_resp.arg.resp = RefreshOk(Some("rt1"))
    /\ last_resp.resp.value = "at1"
    /\ last_resp.resp.user = Credential(Some("at1"), Some("rt1"), Some(last_resp.arg.t + 60))

LegalTransitions ==
    {<<PENDING, PROCESSING>>, <<PROCESSING, COMPLETED>>, <<PROCESSING, FAILED>>}

NextStages(pc) ==
    CASE pc = "start" -> {"collect", "failed", "done"}
      [] pc = "collect" -> {"analyze", "failed"}
      [] pc = "analyze" -> {"issue"}
      [] pc = "issue" -> {"issue", "persist", "failed"}
      [] pc = "persist" -> {"done", "failed"}
      [] pc = "failed" -> {"done"}
      [] OTHER -> {}

\* C24: one execution runs its stages in order, each after the one before has
\* finished: the PROCESSING commit, then the collection (which starts with the
\* token acquisition and collects nothing when that fails), then the analysis
\* (the AI client once, the fallback only when the client failed), then
\* share-token issuance, then the terminal commit; no stage is entered twice.
C24_StagesInOrder ==
    /\ [](\A k \in TaskIds :
            tasks[k].pc \in {"collect", "analyze", "issue", "persist"} =>
                /\ JobOf(k).status = PROCESSING /\ JobOf(k).started_at # None
                /\ (tasks[k].music_data # None) = (tasks[k].pc = "analyze")
                /\ (tasks[k].analysis_result # None) = (tasks[k].pc \in {"issue", "persist"})
                /\ (tasks[k].share_token # None) = (tasks[k].pc = "persist")
                /\ tasks[k].pc \in {"collect", "analyze"} => tasks[k].ai = "not_called")
    /\ [][\A k \in TaskIds :
            tasks'[k] # tasks[k] =>
                /\ tasks'[k].pc \in NextStages(tasks[k].pc)
                /\ tasks'[k].pc # tasks[k].pc \/ tasks[k].pc = "issue"
                /\ (tasks[k].pc = "collect" /\ tasks'[k].pc = "failed") =>
                        tasks'[k].music_data = None
                /\ tasks[k].pc # "analyze" => tasks'[k].ai = tasks[k].ai
                /\ tasks[k].pc = "analyze" =>
                        LET d == tasks[k].music_data
                            r == tasks'[k].analysis_result
                        IN  \/ /\ tasks'[k].ai = "not_called"
                               /\ NoListeningData(d) /\ r = DefaultAnalysis
                            \/ /\ tasks'[k].ai = "ok" /\ ~NoListeningData(d)
                               /\ \E reply \in ProviderReplies :
                                    /\ analyze_music_taste(reply).ok
                                    /\ r = analyze_music_taste(reply).value
                            \/ /\ tasks'[k].ai = "failed" /\ ~NoListeningData(d)
                               /\ r = fallback_analysis(d)
                /\ store'[tasks[k].analysis_id].status \in Terminal
                        /\ store[tasks[k].analysis_id].status \notin Terminal =>
                        tasks[k].pc \in {"persist", "failed"} /\ tasks'[k].pc = "done"]_vars

\* an execution went through every stage, the fallback standing in for the
\* failed AI client, and committed COMPLETED
C24_Witness ==
    \E k \in TaskIds :
        /\ Done(k) /\ tasks[k].ai = "failed" /\ tasks[k].failed_at = "none"
        /\ tasks[k].recorded = "completed"
        /\ JobOf(k).status = COMPLETED /\ JobOf(k).started_at # None
        /\ JobOf(k).share_token # None

NormalReturns == {"completed", "failed", "commit_failed", "missing", "unbound"}

\* C25: no exception leaves an execution: whether the load of the job, a
\* pipeline stage, the final commit or the commit that records FAILED fails,
\* the call returns normally; a failure while recording FAILED is only logged
\* and the job keeps the status it had.
C25_NeverPropagates ==
    \A k \in TaskIds :
        /\ tasks[k].recorded # "propagated"
        /\ Done(k) => tasks[k].recorded \in NormalReturns
        /\ tasks[k].recorded \in {"commit_failed", "unbound"} =>
                /\ tasks[k].exc # None
                /\ tasks[k].analysis_id \in RowIds(store) => JobOf(k).status # FAILED
        /\ tasks[k].recorded = "unbound" <=> (Done(k) /\ tasks[k].failed_at = "load")

\* the final commit failed, the commit recording FAILED failed too, and the
\* call returned, the job left PROCESSING
C25_Witness ==
    \E k \in TaskIds :
        /\ Done(k) /\ tasks[k].failed_at = "commit" /\ tasks[k].recorded = "commit_failed"
        /\ JobOf(k).status = PROCESSING

\* the execution loaded its job: the select succeeded and found the row
FoundJob(k) == tasks[k].failed_at # "load" /\ tasks[k].recorded # "missing"

\* C26: when an execution that found its job has returned, the job is
\* COMPLETED or FAILED unless the commit recording FAILED failed; in that
\* case only is it left PENDING or PROCESSING.
C26_ReturnsTerminalUnlessDoubleFailure ==
    \A k \in TaskIds :
        Done(k) /\ FoundJob(k) =>
            /\ tasks[k].recorded # "commit_failed" => JobOf(k).status \in Terminal
            /\ tasks[k].recorded = "completed" <=> JobOf(k).status = COMPLETED
            /\ tasks[k].recorded = "failed" <=> JobOf(k).status = FAILED
            /\ tasks[k].recorded = "commit_failed" =>
                    /\ tasks[k].failed_at # "none"
                    /\ JobOf(k).status =
                         (IF tasks[k].failed_at = "start_commit" THEN PENDING ELSE PROCESSING)

\* the collection failed and the handler recorded it: the execution returned
\* with the job FAILED
C26_Witness ==
    \E k \in TaskIds :
        /\ Done(k) /\ FoundJob(k) /\ tasks[k].failed_at = "collect"
        /\ tasks[k].recorded = "failed" /\ JobOf(k).status = FAILED
        /\ JobOf(k).completed_at # None

\* task k takes a step
Executes(k) == k \in TaskIds /\ tasks'[k] # tasks[k]

\* C27: an execution changes no row but the one whose id it was given, and
\* adds none; given an id no row has it returns without changing the store or
\* any credential and without entering a pipeline stage.
C27_ExecuteTouchesOnlyItsJob ==
    /\ [][\A k \in TaskIds :
            Executes(k) =>
                /\ Len(store') = Len(store)
                /\ \A i \in RowIds(store) : i # tasks[k].analysis_id => store'[i] = store[i]
                /\ tasks[k].analysis_id \notin RowIds(store) =>
                        /\ store' = store /\ users' = users
                        /\ tasks'[k].pc \in {"done", "failed"}]_vars
    /\ [](\A k \in TaskIds :
            tasks[k].analysis_id \notin RowIds(store) =>
                /\ tasks[k].pc \in {"start", "failed", "done"}
                /\ tasks[k].failed_at \in {"none", "load"}
                /\ tasks[k].recorded \in {"none", "missing", "unbound"}
                /\ tasks[k].ai = "not_called")

\* one execution was given an id no row has and returned at once; another
\* completed its own job; the other owner's row is as it was
C27_Witness ==
    \E k, m \in TaskIds :
        /\ tasks[k].analysis_id \notin RowIds(store) /\ tasks[k].recorded = "missing"
        /\ Done(m) /\ tasks[m].recorded = "completed" /\ JobOf(m).status = COMPLETED
        /\ \E i \in RowIds(store) : i # tasks[m].analysis_id /\ store[i] = PendingJobs[i]


----------------------------------------------------------------------------
\* C28: generate_unique_share_token makes at most 10 attempts. An execution
\* that is about to generate a token has made fewer than 10; the token it
\* goes on with is one that no row of the table holds at the lookup; a
\* collision on an attempt before the tenth leads to one more attempt; and a
\* collision on the tenth raises the RuntimeError, with no token returned
\* and no further attempt.
Exhausted == Some(<<"Failed to generate unique share token after maximum attempts">>)

C28_IssueBounded ==
    /\ [](\A k \in TaskIds : tasks[k].pc = "issue" => tasks[k].attempts \in 0..9)
    /\ [][\A k \in TaskIds :
            (tasks[k].pc = "issue" /\ tasks'[k] # tasks[k]) =>
              /\ tasks'[k].pc \in {"issue", "persist", "failed"}
              /\ tasks'[k].pc = "persist" =>
                   /\ tasks'[k].share_token # None
                   /\ \A i \in RowIds(store) :
                         store[i].share_token # tasks'[k].share_token
                   /\ tasks'[k].attempts = tasks[k].attempts
              /\ tasks'[k].pc = "issue" =>
                   /\ tasks'[k].attempts = tasks[k].attempts + 1
                   /\ tasks'[k].attempts < 10
                   /\ tasks'[k].share_token = None
              /\ tasks'[k].pc = "failed" =>
                   /\ tasks'[k].share_token = None
                   /\ tasks'[k].exc = Exhausted <=> tasks'[k].attempts = 10
                   /\ tasks'[k].exc = Exhausted => tasks[k].attempts = 9]_vars

\* all ten tokens generated collided and the RuntimeError was raised
C28_Witness ==
    \E k \in TaskIds :
        /\ tasks[k].pc = "failed" /\ tasks[k].failed_at = "issue"
        /\ tasks[k].exc = Exhausted /\ tasks[k].attempts = 10
        /\ tasks[k].share_token = None


----------------------------------------------------------------------------
\* execution k left generate_unique_share_token with a token that, since its
\* lookup, the job of another execution has been committed with
Raced(k) ==
    /\ k \in TaskIds /\ tasks[k].share_token # None
    /\ tasks[k].analysis_id \in RowIds(store)
    /\ \E j \in RowIds(store) :
          /\ j # tasks[k].analysis_id
          /\ store[j].share_token = tasks[k].share_token
          /\ store[j].status = COMPLETED

TokensDistinct ==
    \A i \in RowIds(store), j \in RowIds(store) :
        (i # j /\ store[i].share_token # None) =>
            store[i].share_token # store[j].share_token

\* C29 as stated: when two executions for different owners obtained the same
\* token, no two jobs ever hold it, and the execution whose commit came second
\* returns with its job FAILED.
C29_SameTokenLoserFailed ==
    /\ []TokensDistinct
    /\ [][\A k \in TaskIds :
            (Raced(k) /\ tasks'[k].pc = "done") =>
                store'[tasks[k].analysis_id].status = FAILED]_vars

\* C29, amended: when two executions for different owners obtained the same
\* token, no two jobs ever hold it; the commit of the execution that comes
\* second is rejected and leaves the table as it was, and that execution
\* returns with its job holding no token and marked FAILED, or still
\* PROCESSING when the failure handler's commit failed too.
C29_SameTokenLoserFailedUnlessDoubleFailure ==
    /\ []TokensDistinct
    /\ [][\A k \in TaskIds :
            /\ (Raced(k) /\ tasks[k].pc = "persist" /\ tasks'[k] # tasks[k]) =>
                  /\ tasks'[k].pc = "failed"
                  /\ tasks'[k].failed_at \in {"persist", "commit"}
                  /\ store' = store
            /\ (Raced(k) /\ tasks'[k].pc = "done") =>
                  LET id == tasks[k].analysis_id
                  IN  /\ store'[id].share_token = None
                      /\ \A j \in RowIds(store) : j # id => store'[j] = store[j]
                      /\ \/ /\ tasks'[k].recorded = "failed"
                            /\ store'[id].status = FAILED
                         \/ /\ tasks'[k].recorded = "commit_failed"
                            /\ store'[id].status = PROCESSING]_vars

\* two executions for different owners held the same token; the first has
\* committed its job COMPLETED with it and the commit of the second was
\* rejected
C29_Witness ==
    \E k \in TaskIds :
        /\ Raced(k) /\ tasks[k].pc = "failed" /\ tasks[k].failed_at = "commit"
        /\ \E j \in TaskIds :
              /\ j # k /\ tasks[j].user_id # tasks[k].user_id
              /\ tasks[j].recorded = "completed"
              /\ store[tasks[j].analysis_id].share_token = tasks[k].share_token


----------------------------------------------------------------------------
\* the field names of the dict that _fallback_analysis returns
FallbackShape == DOMAIN Verdict("BALANCED LISTENER", <<"vanilla">>, 0, 1)

\* C30: the verdict an execution holds after its analysis step has the field
\* names of the fallback's verdict whether the AI client or the fallback
\* produced it, and the persist step reads its fields without a KeyError on
\* either branch.
C30_SameVerdictShape ==
    \A k \in TaskIds :
        /\ (tasks[k].ai \in {"ok", "failed"} /\ DOMAIN tasks[k].analysis_result # {}) =>
              DOMAIN tasks[k].analysis_result = FallbackShape
        /\ tasks[k].ai \in {"ok", "failed"} => tasks[k].failed_at # "persist"


----------------------------------------------------------------------------
\* the label of each branch of the fallback rule engine with its score pair
\* (in tenths)
MainstreamLabels == {<<"BASIC MAINSTREAM", 7, -3>>, <<"POPULAR TASTE", 5, 2>>}
UndergroundLabels == {<<"PRETENTIOUS HIPSTER", -8, -6>>, <<"UNDERGROUND EXPLORER", -5, 4>>}
MidRangeLabels ==
    {<<"GENRE HOPPER", 1, 8>>, <<"ONE-TRACK MIND", -2, -4>>, <<"BALANCED LISTENER", 0, 1>>}

LabelOf(v) == <<v["rating_text"], v["x_axis_pos"], v["y_axis_pos"]>>

\* the popularities of the top tracks of the three windows, pooled
PopularitySum(d) ==
    SumSeq([i \in 1..Len(d.top_tracks["short_term"]) |->
               d.top_tracks["short_term"][i].popularity])
    + SumSeq([i \in 1..Len(d.top_tracks["medium_term"]) |->
               d.top_tracks["medium_term"][i].popularity])
    + SumSeq([i \in 1..Len(d.top_tracks["long_term"]) |->
               d.top_tracks["long_term"][i].popularity])
PopularityCount(d) ==
    Len(d.top_tracks["short_term"]) + Len(d.top_tracks["medium_term"])
        + Len(d.top_tracks["long_term"])

\* C31: the fallback rule engine answers a mainstream label exactly when the
\* pooled average top-track popularity (0 with no track) is above 70, BASIC
\* MAINSTREAM when the genre set has a mainstream marker and POPULAR TASTE
\* otherwise; an underground label exactly when the average is below 30,
\* PRETENTIOUS HIPSTER when a genre is on the experimental list and
\* UNDERGROUND EXPLORER otherwise; a mid-range label otherwise, 30 and 70
\* included; each label comes with its fixed score pair.
C31_FallbackThresholds ==
    FallbackCalled =>
        LET d == last_resp.arg.d
            v == last_resp.resp[1]
            sum == PopularitySum(d)
            cnt == PopularityCount(d)
            genres == SeqRange(last_resp.arg.first)
            above70 == cnt > 0 /\ sum > 70 * cnt
            below30 == cnt = 0 \/ sum < 30 * cnt
            marker == \E g \in genres : g \in {"pop", "mainstream", "Mainstream Rock"}
            experimental == \E g \in genres : g \in {"experimental", "noise", "avant-garde"}
        IN  /\ LabelOf(v) \in MainstreamLabels \cup UndergroundLabels \cup MidRangeLabels
            /\ LabelOf(v) \in MainstreamLabels <=> above70
            /\ LabelOf(v) \in UndergroundLabels <=> below30
            /\ LabelOf(v) \in MidRangeLabels <=> (~above70 /\ ~below30)
            /\ above70 => (v["rating_text"] = "BASIC MAINSTREAM" <=> marker)
            /\ below30 => (v["rating_text"] = "PRETENTIOUS HIPSTER" <=> experimental)

\* a pooled average just over the threshold: the tracks 70 and 71 of two
\* windows average 70.5
C31_Witness ==
    /\ FallbackCalled
    /\ PopularityCount(last_resp.arg.d) = 2
    /\ PopularitySum(last_resp.arg.d) = 141
    /\ last_resp.resp[1]["rating_text"] = "POPULAR TASTE"


----------------------------------------------------------------------------
AnalyzeCalled == last_resp.op = "_analyze_music_with_ai"

\* the scores of a verdict, under whatever field names it carries them
ScorePair(v) == [k \in DOMAIN v \ {"rating_text", "rating_description"} |-> v[k]]

\* C32: on every collected dataset and every outcome of the AI client, the
\* analysis step of the background task and AnalysisCoordinator's return the
\* same label and the same score pair.
C32_SameAnalysisLogic ==
    AnalyzeCalled =>
        /\ last_resp.resp[1]["rating_text"] = last_resp.resp[2]["rating_text"]
        /\ ScorePair(last_resp.resp[1]) = ScorePair(last_resp.resp[2])


----------------------------------------------------------------------------
\* the requests for audio features issued so far by the collection in progress
FeatureRequests ==
    {p \in 1..Len(last_resp.resp.requests) : last_resp.resp.requests[p][1] = "audio_features"}

\* the seven sub-fetches whose results carry or accompany the track ids
SevenSubFetches == TopTrackFetches \cup TopArtistFetches \cup {<<"recently_played">>}

\* the distinct track identifiers found in the results of the sub-fetches
FoundIds ==
    LET data == last_resp.resp.data
    IN  {t.id : t \in UNION {SeqRange(data[f]) : f \in TopTrackFetches}}
            \cup SeqRange(data[<<"recently_played">>])

\* C33: the collector issues no audio-feature request before the six
\* top-item sub-fetches and the recently-played sub-fetch have all been
\* issued and have left their result or the empty placeholder; the
\* identifiers it requests are distinct identifiers found in those results,
\* none twice, and when it returns it has requested exactly all of them.
C33_FeaturesAfterSubFetches ==
    /\ [](Collecting =>
            LET fr == last_resp.resp
            IN  /\ \A p \in FeatureRequests :
                      /\ p > 7
                      /\ {fr.requests[j] : j \in 1..7} = SevenSubFetches
                      /\ DOMAIN fr.data = SevenSubFetches
                      /\ SeqRange(fr.requests[p][2]) \subseteq FoundIds
                      /\ Len(fr.requests[p][2]) = Cardinality(SeqRange(fr.requests[p][2]))
                      /\ \A q \in FeatureRequests :
                            q # p => SeqRange(fr.requests[p][2])
                                        \cap SeqRange(fr.requests[q][2]) = {}
                /\ fr.stage = "returned" =>
                      UNION {SeqRange(fr.requests[p][2]) : p \in FeatureRequests} = FoundIds)
    /\ [][(Collecting /\ Collecting' /\ FeatureRequests' # FeatureRequests) =>
            /\ DOMAIN last_resp.resp.data = SevenSubFetches
            /\ last_resp'.resp.data = last_resp.resp.data]_vars

\* a collection of 101 distinct tracks that has returned: the seven
\* sub-fetches, then a request for 100 identifiers and one for the last
C33_Witness ==
    /\ Collecting /\ last_resp.resp.stage = "returned"
    /\ last_resp.arg = ManyTracksUpstream
    /\ Cardinality(FeatureRequests) = 2
    /\ Len(last_resp.resp.requests) = 9
    /\ Len(last_resp.resp.requests[8][2]) = BatchSize
    /\ Len(last_resp.resp.requests[9][2]) = ManyTracks - BatchSize
    /\ Len(last_resp.resp.audio_features) = ManyTracks - BatchSize


----------------------------------------------------------------------------
\* the attempts of the call in progress that were followed by another one
Retried == 1..(Len(last_resp.resp.seen) - 1)

\* what holds of every call of _make_request: at most retries + 1 attempts;
\* an attempt is followed by another only after a 429, having waited the
\* retry-after hint (1 second without one), or after a network error, having
\* waited 2^attempt seconds; after retries + 1 attempts the call has
\* ended, and it ends with an error unless its last attempt got a 200 or 204
MakeRequestBounded ==
    Requesting =>
        LET fr == last_resp.resp
        IN  /\ Len(fr.seen) <= DefaultRetries + 1
            /\ Len(fr.waits) <= DefaultRetries
            /\ \A i \in Retried :
                  \/ fr.seen[i].kind = "request_error" /\ fr.waits[i] = Pow2(i - 1)
                  \/ /\ fr.seen[i].kind = "response" /\ fr.seen[i].status = 429
                     /\ fr.waits[i] = (IF fr.seen[i].retry_after = None THEN 1
                                       ELSE fr.seen[i].retry_after[1])
            /\ Len(fr.seen) = DefaultRetries + 1 => fr.result # None
            /\ (fr.result # None /\ fr.result[1].ok) =>
                  /\ fr.seen[Len(fr.seen)].kind = "response"
                  /\ fr.seen[Len(fr.seen)].status \in {200, 204}

\* C34: a call makes at most retries + 1 = 4 attempts. After a 429 with
\* attempts left it waits the retry-after hint (1 second without one) and
\* tries again; after a network error with attempts left it waits 2^attempt
\* seconds and tries again; a 200 or 204 returns at once; any other status
\* fails at once; nothing else is retried, and after the last attempt the
\* call has failed or returned.
C34_RetryPolicy ==
    Requesting =>
        LET fr == last_resp.resp
            n == Len(fr.seen)
        IN  /\ n <= 4
            /\ n = 4 => fr.result # None
            /\ \A i \in 1..n :
                  LET o == fr.seen[i]
                      follows == i < n \/ fr.result = None
                  IN  CASE o.kind = "request_error" ->
                              IF i < 4 THEN follows /\ fr.waits[i] = Pow2(i - 1)
                              ELSE fr.result # None /\ ~fr.result[1].ok
                        [] o.kind = "exception" -> ~follows /\ ~fr.result[1].ok
                        [] o.status = 429 ->
                              IF i < 4
                              THEN /\ follows
                                   /\ fr.waits[i] = (IF o.retry_after = None THEN 1
                                                     ELSE o.retry_after[1])
                              ELSE fr.result # None /\ ~fr.result[1].ok
                        [] o.status \in {200, 204} -> ~follows /\ fr.result[1].ok
                        [] OTHER -> ~follows /\ ~fr.result[1].ok


----------------------------------------------------------------------------
\* C35: get_valid_access_token fails with the SpotifyAPIError of the case and
\* leaves the stored access token, refresh token and expiry as they were when
\* no access token is stored, when the token is within the margin of its
\* expiry and no refresh token is stored, and when the provider's refresh
\* fails; when the provider's reply carries no refresh token and the save
\* succeeds, the stored refresh token is the one stored before.
C35_TokenFailuresKeepCredentials ==
    TokenCalled =>
        LET a == last_resp.arg
            r == last_resp.resp
            exp == a.user.token_expires_at
            due == exp # None /\ exp[1] <= a.t + 5
        IN  /\ a.user.access_token = None =>
                /\ ~r.ok /\ r.user = a.user /\ ~r.contacted
                /\ r.error = <<"User has no Spotify access token">>
            /\ (a.user.access_token # None /\ due /\ a.user.refresh_token = None) =>
                /\ ~r.ok /\ r.user = a.user /\ ~r.contacted
                /\ r.error = <<"Spotify refresh token not available">>
            /\ (a.user.access_token # None /\ due /\ a.user.refresh_token # None
                    /\ ~a.resp.ok) =>
                /\ ~r.ok /\ r.user = a.user /\ r.contacted
                /\ r.error = <<"Failed to refresh Spotify token", "Failed to refresh token">>
            /\ (a.user.access_token # None /\ due /\ a.user.refresh_token # None
                    /\ a.resp.ok /\ a.resp.refresh_token = None /\ a.db_ok) =>
                /\ r.ok /\ r.user.refresh_token = a.user.refresh_token
                /\ r.user.access_token = Some(a.resp.access_token)

\* the token had expired, a refresh token was stored, and the provider's
\* refresh failed: the error is raised and the credentials are as before
C35_Witness ==
    /\ TokenCalled /\ ~last_resp.resp.ok /\ last_resp.resp.contacted
    /\ last_resp.arg.resp = RefreshFailed
    /\ last_resp.arg.user = Credential(Some("at0"), Some("rt0"), Some(0))
    /\ last_resp.arg.t = 1
    /\ last_resp.resp.user = last_resp.arg.user


----------------------------------------------------------------------------
SummaryCalled == last_resp.op = "_prepare_music_summary"

\* the artists of a window of the dataset
WindowArtists(d, w) == {d.top_artists[w][i].id : i \in 1..Len(d.top_artists[w])}

\* C36: the summarizer returns on every dataset, the empty one included. Its
\* artist loyalty score is the number of distinct artists found in more than
\* one of the three windows divided by the number of distinct artists, and
\* lies in [0, 1]; the popularity average is the sum of the top-track
\* popularities over their number and the mainstream score a hundredth of
\* it; each of the three is 0 when its denominator is zero.
C36_SummaryRatios ==
    SummaryCalled =>
        LET d == last_resp.arg
            r == last_resp.resp
            distinct == UNION {WindowArtists(d, w) : w \in WindowSet}
            several == {a \in distinct :
                          Cardinality({w \in WindowSet : a \in WindowArtists(d, w)}) > 1}
            cnt == PopularityCount(d)
            sum == PopularitySum(d)
        IN  /\ r.ok
            /\ LET s == r.value
                   l == s.artist_loyalty_score
               IN  /\ l.den > 0 /\ 0 <= l.num /\ l.num <= l.den
                   /\ distinct = {} => l.num = 0
                   /\ distinct # {} =>
                        l.num * Cardinality(distinct) = Cardinality(several) * l.den
                   /\ s.total_unique_artists = Cardinality(distinct)
                   /\ s.popularity_avg.den > 0 /\ s.mainstream_score.den > 0
                   /\ cnt = 0 => s.popularity_avg.num = 0 /\ s.mainstream_score.num = 0
                   /\ cnt > 0 =>
                        /\ s.popularity_avg.num * cnt = sum * s.popularity_avg.den
                        /\ s.mainstream_score.num * cnt * 100 = sum * s.mainstream_score.den

\* three distinct artists, one of them in two windows: the loyalty score is
\* a third
C36_Witness ==
    /\ SummaryCalled /\ last_resp.resp.ok
    /\ last_resp.resp.value.total_unique_artists = 3
    /\ last_resp.resp.value.artist_loyalty_score = Ratio(1, 3)
    /\ last_resp.resp.value.popularity_avg = Ratio(135, 2)

====
